---- MODULE Spec2Model ----
(***************************************************************************)
(* Connection lifecycle of ConnectionManagementService                     *)
(* (src/unnamed/part_000, lines 158-1194; ServerGroupController, lines     *)
(* 18-108, is near the end of the module): connect / tryConnect /          *)
(* connectWithOptions / createNewConnection, the recovery protocol of      *)
(* handleConnectionError, connectIfNotConnected and deleteConnection, run  *)
(* against the connection status registry and the external collaborators   *)
(* (credential store, account service, provider, resource provider).       *)
(*                                                                         *)
(* One action is one turn of the event loop: the synchronous code of a     *)
(* call or of a completion callback together with the promise              *)
(* continuations it releases, up to the next awaited external call.        *)
(*                                                                         *)
(* ConnectionStatusManager, ConnectionStore, the provider dispatch         *)
(* (sendConnectRequest / onConnectionComplete) and doDisconnect are not in *)
(* the source tree; their definitions follow spec.md sections 3, 4.1, 4.2, *)
(* 5 and 6 and are prefixed csm / store / provider below.                  *)
(***************************************************************************)
EXTENDS Integers, Sequences, FiniteSets, TLC

\* Number of API calls (connect*, deleteConnection) issued in one run.
MaxOps == 3

\* Number of those calls that may be unsettled at the same time.
MaxPending == 2

Ops == 1..MaxOps
Uris == {"uA", "uB"}
NoUri == "none"

(***************************************************************************)
(* Data model                                                              *)
(***************************************************************************)

\* Constants.azureMFA (part_000 line 749): the federated authentication type.
azureMFA == "AzureMFA"

\* IConnectionResult with errorMessage = undefined and no errorHandled flag.
\* err is "none" for undefined; code says whether errorCode is set.
NoResult == [connected |-> FALSE, err |-> "none", code |-> FALSE, handled |-> FALSE]

\* A descriptor before any call has touched it.
NoDesc == [auth |-> "SqlLogin", token |-> "", pw |-> FALSE, optPw |-> FALSE,
           savePassword |-> FALSE, tenant |-> FALSE]

\* The absent registry entry (findConnection returning undefined).
NoRec == [key |-> NoUri]

IdleCall ==
    [pc |-> "idle", kind |-> "none", uri |-> NoUri, curi |-> NoUri, d |-> NoDesc,
     d0 |-> NoDesc,
     hasOpts |-> FALSE, optDialog |-> FALSE, optFw |-> FALSE, optSave |-> FALSE,
     fwInit |-> FALSE, nested |-> FALSE, ndisp |-> 0, fired |-> 0,
     res |-> NoResult, out |-> "pending", val |-> "",
     cbStart |-> 0, cbSuccess |-> 0, cbReject |-> 0, added |-> 0,
     raw |-> << >>, log |-> {}, waiting |-> {}, db |-> "", dlg |-> NoResult,
     group |-> {}, callerOpts |-> FALSE]

VARIABLES
    conns,      \* the status registry: the set of attempt records
    inflight,   \* provider dispatches whose completion has not arrived
    mru,        \* addRecentConnection calls that have not settled
    calls,      \* per API call: position, inputs, locals, promise, callbacks
    started,    \* number of API calls issued so far
    groups,     \* the saved connection-group tree (getConnectionGroups)
    hasServers, \* what hasRegisteredServers returned ("" before the call)
    profile,    \* the descriptor handed to fillInOrClearAzureToken
    accounts,   \* what the account service answers to that call
    tokenFill,  \* what fillInOrClearAzureToken returned ("" before the call)
    sgc,        \* the ServerGroupController, its dialog and the group it edits
    lang,       \* providers, default provider and language-flavor notifications
    walk        \* doHasRegisteredServers run step by step: frames, reads, returns

vars == <<conns, inflight, mru, calls, started, groups, hasServers, profile,
          accounts, tokenFill, sgc, lang, walk>>

\* The state read by the connect flow, and the state of the two functions
\* that are checked on their own.
flowVars == <<conns, inflight, mru, calls, started>>
fnVars == <<groups, hasServers, profile, accounts, tokenFill, sgc, lang, walk>>

\* The whole state as one value, so that the code's functions are operators
\* from state to state.
\* exc is the exception pending in the turn being executed ("" for none).
Cur == [conns |-> conns, inflight |-> inflight, mru |-> mru, calls |-> calls, exc |-> ""]

Set(S) ==
    /\ conns' = S.conns
    /\ inflight' = S.inflight
    /\ mru' = S.mru
    /\ calls' = S.calls
    /\ UNCHANGED fnVars

(***************************************************************************)
(* Connection status registry (spec.md 4.1, 5)                             *)
(***************************************************************************)

csmFindConnection(cs, u) ==
    IF \E r \in cs : r.key = u THEN CHOOSE r \in cs : r.key = u ELSE NoRec

\* "last writer wins" for record creation (spec.md 5); a superseded record
\* is removed (spec.md 3).
csmAddConnection(cs, rec) ==
    {r \in cs : r.key # rec.key} \cup {rec}

\* Lazy removal: an in-flight record is marked deleted, any other is removed.
csmDeleteConnection(cs, u) ==
    {r \in cs : r.key # u} \cup
    {[r EXCEPT !.deleted = TRUE] : r \in {x \in cs : x.key = u /\ x.connecting}}

csmIsConnected(cs, u) == \E r \in cs : r.key = u /\ r.connected

csmIsConnecting(cs, u) == \E r \in cs : r.key = u /\ r.connecting

\* The canonical URI of the slot a URI is an alias of.
csmGetOriginalOwnerUri(cs, u) ==
    IF \E r \in cs : r.key = u THEN csmFindConnection(cs, u).ownerUri ELSE u

\* The provider's completion signal: the attempt is no longer in flight and
\* is connected exactly when the provider reports success.
csmOnConnectionComplete(cs, u, ok) ==
    {r \in cs : r.key # u} \cup
    {[r EXCEPT !.connecting = FALSE, !.connected = ok] : r \in {x \in cs : x.key = u}}

\* After a save the profile may have acquired a persisted identifier: the
\* record is then filed under the new id and keeps its owner URI.
csmUpdateConnectionProfile(cs, u, newId) ==
    IF newId = u \/ ~(\E r \in cs : r.key = u) THEN cs
    ELSE {r \in cs : r.key # u /\ r.key # newId} \cup
         {[r EXCEPT !.key = newId] : r \in {x \in cs : x.key = u}}

\* The id a descriptor has once it is saved (Utils.generateUri of the saved profile).
SavedId(u) == "uB"

(***************************************************************************)
(* Credential store (spec.md 4.2, 6)                                       *)
(***************************************************************************)

storeIsPasswordRequired(d) == d.auth = "SqlLogin"

\* A copy of the descriptor, with the password populated if one is stored.
storeAddSavedPassword(d, found) ==
    IF found THEN [d EXCEPT !.pw = TRUE, !.optPw = TRUE] ELSE d

(***************************************************************************)
(* fillInOrClearAzureToken (part_000 lines 748-786)                        *)
(* e is what the account service answers: accounts ("none", "other": none  *)
(* matches the user name, "fresh", "stale"), refreshOk, tokens ("none",    *)
(* "other": not the configured tenant, "both").                            *)
(***************************************************************************)

AccountEnvs ==
    [accounts : {"none", "other", "fresh", "stale"}, refreshOk : BOOLEAN,
     tokens : {"none", "other", "both"}]

\* A variant that leaves a token on a descriptor that is not federated.
fillInOrClearAzureTokenKeepsToken(d, e) ==
    IF d.auth # azureMFA
    THEN [ok |-> TRUE, d |-> d]
    ELSE IF d.token # ""
    THEN [ok |-> TRUE, d |-> d]
    ELSE IF e.accounts = "fresh" /\ e.tokens # "none"
    THEN [ok |-> TRUE, d |-> [d EXCEPT !.token = "first", !.optPw = FALSE]]
    ELSE [ok |-> FALSE, d |-> d]

\* A variant that goes on to the tokens after a cancelled refresh.
fillInOrClearAzureTokenIgnoringCancel(d, e) ==
    IF d.auth # azureMFA
    THEN [ok |-> TRUE, d |-> [d EXCEPT !.token = ""]]
    ELSE IF d.token # ""
    THEN [ok |-> TRUE, d |-> d]
    ELSE IF e.accounts \in {"fresh", "stale"}
    THEN IF d.tenant /\ e.tokens = "both"
         THEN [ok |-> TRUE, d |-> [d EXCEPT !.token = "tenant", !.optPw = FALSE]]
         ELSE IF e.tokens = "none"
         THEN [ok |-> FALSE, d |-> d]
         ELSE [ok |-> TRUE, d |-> [d EXCEPT !.token = "first", !.optPw = FALSE]]
    ELSE [ok |-> FALSE, d |-> d]

\* A variant that always takes the first tenant's token.
fillInOrClearAzureTokenFirstTenant(d, e) ==
    IF d.auth # azureMFA
    THEN [ok |-> TRUE, d |-> [d EXCEPT !.token = ""]]
    ELSE IF d.token # ""
    THEN [ok |-> TRUE, d |-> d]
    ELSE IF e.accounts \in {"fresh", "stale"}
    THEN IF e.accounts = "stale" /\ ~e.refreshOk
         THEN [ok |-> FALSE, d |-> d]
         ELSE IF e.tokens = "none"
         THEN [ok |-> FALSE, d |-> d]
         ELSE [ok |-> TRUE, d |-> [d EXCEPT !.token = "first", !.optPw = FALSE]]
    ELSE [ok |-> FALSE, d |-> d]

fillInOrClearAzureToken(d, e) ==
    IF d.auth # azureMFA
    THEN [ok |-> TRUE, d |-> [d EXCEPT !.token = ""]]
    ELSE IF d.token # ""
    THEN [ok |-> TRUE, d |-> d]
    ELSE IF e.accounts \in {"fresh", "stale"}
    THEN IF e.accounts = "stale" /\ ~e.refreshOk
         THEN [ok |-> FALSE, d |-> d]
         ELSE IF d.tenant /\ e.tokens = "both"
         THEN [ok |-> TRUE, d |-> [d EXCEPT !.token = "tenant", !.optPw = FALSE]]
         ELSE IF e.tokens = "none"
         THEN [ok |-> FALSE, d |-> d]
         ELSE [ok |-> TRUE, d |-> [d EXCEPT !.token = "first", !.optPw = FALSE]]
    ELSE [ok |-> FALSE, d |-> d]

(***************************************************************************)
(* Orchestrator: how a call's promise settles                              *)
(***************************************************************************)

Tag(S, c, t) == [S EXCEPT !.calls[c].log = @ \cup {t}]

\* callbacks.onConnectReject("Connection Not Accepted") (lines 477-479,
\* 501-503, 507-509).
Reject1(S, c) ==
    [S EXCEPT !.calls[c].cbReject = @ + 1, !.calls[c].log = @ \cup {"notAccepted"}]

\* callbacks.onConnectReject(err) with the error caught (lines 472-474, 484-486).
RejectErr(S, c) ==
    [S EXCEPT !.calls[c].cbReject = @ + 1, !.calls[c].log = @ \cup {"rejectErr"}]

\* The promise returned to the caller settles; val is "result" (the
\* IConnectionResult in res), a URI, "true"/"false", or the rejection reason.
Settle(S, c, how, v) ==
    [S EXCEPT !.calls[c].pc = "done", !.calls[c].out = how, !.calls[c].val = v]

\* A variant that takes an error already handled for a success.
connectIfNotConnectedThenHandledIsSuccess(S, c, r) ==
    IF r.connected \/ r.handled
    THEN Settle(S, c, "fulfilled", csmGetOriginalOwnerUri(S.conns, S.calls[c].uri))
    ELSE Settle(S, c, "rejected", r.err)

\* connectIfNotConnected, lines 379-385: the continuation on connect's result.
connectIfNotConnectedThen(S, c, r) ==
    IF r.connected
    THEN Settle(S, c, "fulfilled", csmGetOriginalOwnerUri(S.conns, S.calls[c].uri))
    ELSE Settle(S, c, "rejected", r.err)

\* The promise of connect (lines 338-360: that of tryConnect) fulfils with r.
resolveConnect(S, c, r) ==
    LET S1 == [S EXCEPT !.calls[c].res = r]
    IN  IF S.calls[c].kind = "connectIfNotConnected"
        THEN connectIfNotConnectedThen(S1, c, r)
        ELSE Settle(S1, c, "fulfilled", "result")

\* A variant that opens the dialog whatever the options say.
showConnectionDialogOnErrorAlways(S0, c, r) ==
    LET S == [Tag(S0, c, "dialogOffered") EXCEPT !.calls[c].dlg = r]
    IN  [Tag(S, c, "dialogShown") EXCEPT !.calls[c].res = r,
                                         !.calls[c].pc = "showConnectionDialog"]

\* showConnectionDialogOnError, lines 311-329.
\* dlg keeps the connectionResult passed in.
showConnectionDialogOnError(S0, c, r) ==
    LET S == [Tag(S0, c, "dialogOffered") EXCEPT !.calls[c].dlg = r]
    IN  IF S.calls[c].hasOpts /\ S.calls[c].optDialog
        THEN [Tag(S, c, "dialogShown") EXCEPT !.calls[c].res = r,
                                              !.calls[c].pc = "showConnectionDialog"]
        ELSE resolveConnect(S, c, r)

\* tryConnect, lines 294-302: the continuation on connectWithOptions' result.
tryConnectThen(S, c, r) ==
    IF ~r.connected /\ ~r.handled
    THEN showConnectionDialogOnError(S, c, r)
    ELSE resolveConnect(S, c, r)

\* The promise of the outermost connectWithOptions fulfils with r: it goes to
\* tryConnect's continuation, or to the caller of connectAndSaveProfile
\* (lines 394-409).
cwoResolve(S, c, r) ==
    IF S.calls[c].kind = "connectAndSaveProfile"
    THEN Settle([S EXCEPT !.calls[c].res = r], c, "fulfilled", "result")
    ELSE tryConnectThen(S, c, r)

\* A connectWithOptions promise rejects with e.  When it is the retry made by
\* handleConnectionError, the rejection passes the catch of lines 471-476 and
\* then the catch of lines 483-488 of the first invocation; tryConnect,
\* connect and connectIfNotConnected let a rejection through.
cwoReject(S, c, e) ==
    LET S1 == IF S.calls[c].nested THEN RejectErr(RejectErr(S, c), c) ELSE S
    IN  Settle(S1, c, "rejected", e)

\* Lines 483-488: the catch on the createNewConnection chain.
cwoCatch(S, c, e) == cwoReject(RejectErr([S EXCEPT !.exc = ""], c), c, e)

(***************************************************************************)
(* createNewConnection and its completion callback                         *)
(***************************************************************************)

\* A variant that hands on the provider's error for a deleted record too.
connectHandlerResultSurfacingError(cs, u, connected, err, code) ==
    [connected |-> connected, err |-> err, code |-> code,
     handled |-> csmFindConnection(cs, u).key # NoUri /\ csmFindConnection(cs, u).deleted]

\* Lines 868-882: the result the completion callback hands to resolve.
connectHandlerResult(cs, u, connected, err, code) ==
    IF csmFindConnection(cs, u).key # NoUri /\ csmFindConnection(cs, u).deleted
    THEN [connected |-> connected, err |-> "none", code |-> FALSE, handled |-> TRUE]
    ELSE [connected |-> connected, err |-> err, code |-> code, handled |-> FALSE]

\* A variant that also removes the entry when called with connectResult
\* false and no error message.
connectHandlerRemovesUnlessConnected(S, info, connected, err, code) ==
    LET u == info.ownerUri
        cur == csmFindConnection(S.conns, u)
        stale == cur.key # NoUri /\ cur.deleted
        S1 == [S EXCEPT !.calls[info.call].fired = @ + 1]
    IN  IF stale \/ err # "none" \/ ~connected
        THEN [S1 EXCEPT !.conns = csmDeleteConnection(S.conns, u)]
        ELSE S1

\* A variant that leaves the entry of a failed attempt in the registry.
connectHandlerKeepsFailed(S, info, connected, err, code) ==
    LET u == info.ownerUri
        cur == csmFindConnection(S.conns, u)
        stale == cur.key # NoUri /\ cur.deleted
        S1 == [S EXCEPT !.calls[info.call].fired = @ + 1]
    IN  IF stale
        THEN [S1 EXCEPT !.conns = csmDeleteConnection(S.conns, u)]
        ELSE S1

\* Lines 868-882: the callback's effect on the registry.  info is the record
\* the callback was installed on; the uri it closes over is info.ownerUri.
connectHandler(S, info, connected, err, code) ==
    LET u == info.ownerUri
        cur == csmFindConnection(S.conns, u)
        stale == cur.key # NoUri /\ cur.deleted
        S1 == [S EXCEPT !.calls[info.call].fired = @ + 1]
    IN  IF stale \/ err # "none"
        THEN [S1 EXCEPT !.conns = csmDeleteConnection(S.conns, u)]
        ELSE S1

\* sendConnectRequest (line 885): the dispatch to the provider.
providerSendConnectRequest(S, c, u) ==
    [S EXCEPT !.inflight = @ \cup {[uri |-> u, call |-> c, n |-> S.calls[c].ndisp + 1]},
              !.calls[c].ndisp = @ + 1]

\* A variant that files the new record next to the one already there.
createNewConnectionKeepingOld(S, c) ==
    LET u == S.calls[c].curi
        rec == [key |-> u, ownerUri |-> u, call |-> c, connecting |-> TRUE,
                connected |-> FALSE, deleted |-> FALSE, pw |-> S.calls[c].d.pw,
                db |-> "db0"]
        S1 == [S EXCEPT !.conns = @ \cup {rec},
                        !.calls[c].fired = 0,
                        !.calls[c].pc = "createNewConnection"]
    IN  providerSendConnectRequest(S1, c, u)

\* Lines 862-887.
createNewConnection(S, c) ==
    LET u == S.calls[c].curi
        rec == [key |-> u, ownerUri |-> u, call |-> c, connecting |-> TRUE,
                connected |-> FALSE, deleted |-> FALSE, pw |-> S.calls[c].d.pw,
                db |-> "db0"]
        S1 == [S EXCEPT !.conns = csmAddConnection(S.conns, rec),
                        !.calls[c].fired = 0,
                        !.calls[c].pc = "createNewConnection"]
    IN  providerSendConnectRequest(S1, c, u)

(***************************************************************************)
(* connectWithOptions                                                      *)
(***************************************************************************)

\* What the account service was asked and answered, for the record of the
\* run: "noMatch" when it had no account for the user name,
\* "refreshCancelled" when refreshAccount threw (lines 758-765),
\* "tokensFetched" when getSecurityToken was called (line 766).
AccountTags(d, e) ==
    IF d.auth # azureMFA \/ d.token # "" THEN {}
    ELSE IF e.accounts \in {"none", "other"} THEN {"noMatch"}
    ELSE IF e.accounts = "stale" /\ ~e.refreshOk THEN {"refreshCancelled"}
    ELSE {"tokensFetched"}

\* Lines 411-444: up to the dispatch.
connectWithOptions(S, c, e) ==
    LET k == S.calls[c]
        f == fillInOrClearAzureToken(k.d, e)
        S1 == [S EXCEPT !.calls[c].log = @ \cup AccountTags(k.d, e), !.calls[c].curi = csmGetOriginalOwnerUri(S.conns, k.curi),
                        !.calls[c].optDialog = IF k.hasOpts \/ k.nested THEN @ ELSE FALSE,
                        !.calls[c].optFw = IF k.hasOpts \/ k.nested THEN @ ELSE TRUE,
                        !.calls[c].optSave = IF k.hasOpts \/ k.nested THEN @ ELSE FALSE,
                        !.calls[c].cbStart = @ + 1,
                        !.calls[c].d = f.d]
    IN  IF ~f.ok THEN cwoReject(S1, c, "TokenError") ELSE createNewConnection(S1, c)

\* A variant whose synchronous branch hands the callback an error message.
tryAddActiveConnectionWithError(S, c, info) ==
    IF S.calls[c].optSave
    THEN [S EXCEPT !.mru = @ \cup {[call |-> c, info |-> info]}]
    ELSE IF info.key = NoUri
    THEN [S EXCEPT !.exc = "TypeError"]
    ELSE connectHandler(S, info, FALSE, "msg", FALSE)

\* Lines 814-825.  undefined.connectHandler raises a TypeError: in the
\* caller's turn when called synchronously, inside the detached promise of
\* addRecentConnection otherwise.
tryAddActiveConnection(S, c, info) ==
    IF S.calls[c].optSave
    THEN [S EXCEPT !.mru = @ \cup {[call |-> c, info |-> info]}]
    ELSE IF info.key = NoUri
    THEN [S EXCEPT !.exc = "TypeError"]
    ELSE connectHandler(S, info, FALSE, "none", FALSE)

\* Lines 524-530: throws when the registry has no entry for uri.
doActionsAfterConnectionComplete(S, u) ==
    IF csmFindConnection(S.conns, u).key = NoUri THEN [S EXCEPT !.exc = "TypeError"] ELSE S

\* A variant that saves the password whatever the descriptor says.
cwoSavePasswordAlways(S, c) ==
    [Tag(S, c, "savePassword") EXCEPT !.calls[c].pc = "savePassword"]

\* Lines 463-469.
cwoSavePassword(S, c) ==
    IF S.calls[c].d.savePassword
    THEN [Tag(S, c, "savePassword") EXCEPT !.calls[c].pc = "savePassword"]
    ELSE cwoResolve(S, c, S.calls[c].res)

\* A variant that returns the failed result without telling the callback.
handleConnectionErrorQuiet(S, c, r) ==
    IF S.calls[c].optFw /\ r.code
    THEN [S EXCEPT !.calls[c].pc = "handleFirewallRule"]
    ELSE cwoResolve(S, c, r)

\* Lines 491-511, up to the call of handleFirewallRule.
handleConnectionError(S, c, r) ==
    IF S.calls[c].optFw /\ r.code
    THEN [S EXCEPT !.calls[c].pc = "handleFirewallRule"]
    ELSE cwoResolve(Reject1(S, c), c, r)

\* Lines 444-482: the continuation on createNewConnection's result.
cwoThen(S0, c, r) ==
    LET S == [S0 EXCEPT !.calls[c].res = r]
        u == S.calls[c].curi
    IN  IF r.connected
        THEN LET S1 == tryAddActiveConnection(S, c, csmFindConnection(S.conns, u))
                 S2 == [S1 EXCEPT !.calls[c].cbSuccess = @ + 1]
                 S3 == doActionsAfterConnectionComplete(S2, u)
             IN  IF S1.exc # "" THEN cwoCatch(S1, c, S1.exc)
                 ELSE IF S.calls[c].optSave
                 THEN [Tag(S2, c, "saveProfile") EXCEPT !.calls[c].pc = "saveToSettings"]
                 ELSE IF S3.exc # "" THEN cwoCatch(S3, c, S3.exc)
                 ELSE cwoSavePassword(S3, c)
        ELSE IF r.err # "none"
        THEN handleConnectionError(S, c, r)
        ELSE cwoResolve(Reject1(S, c), c, r)

(***************************************************************************)
(* tryConnect                                                              *)
(***************************************************************************)

\* A variant that goes on to connectWithOptions when no token was found.
tryConnectIgnoringToken(S, c, found, e) ==
    LET k == S.calls[c]
        new0 == storeAddSavedPassword(k.d, found)
        f == fillInOrClearAzureToken(new0, e)
        S1 == [S EXCEPT !.calls[c].d = f.d, !.calls[c].log = @ \cup AccountTags(new0, e)]
    IN  IF ~found /\ storeIsPasswordRequired(f.d) /\ ~f.d.pw
        THEN showConnectionDialogOnError(S1, c, NoResult)
        ELSE connectWithOptions(S1, c, e)

\* Lines 273-293: the continuation on addSavedPassword's answer.
tryConnect(S, c, found, e) ==
    LET k == S.calls[c]
        new0 == storeAddSavedPassword(k.d, found)
        existing == csmFindConnection(S.conns, k.uri)
        backfill == ~found /\ storeIsPasswordRequired(new0) /\ existing.key # NoUri
        new1 == IF backfill THEN [new0 EXCEPT !.pw = existing.pw] ELSE new0
        foundPassword == found \/ backfill
        f == fillInOrClearAzureToken(new1, e)
        S1 == [S EXCEPT !.calls[c].d = f.d,
                        !.calls[c].log = @ \cup AccountTags(new1, e) \cup
                            (IF storeIsPasswordRequired(f.d) /\ ~f.d.pw
                             THEN {"noPassword"} ELSE {}) \cup
                            (IF f.ok THEN {} ELSE {"tokenFail"})]
    IN  IF (~foundPassword /\ storeIsPasswordRequired(f.d) /\ ~f.d.pw) \/ ~f.ok
        THEN showConnectionDialogOnError(S1, c, NoResult)
        ELSE connectWithOptions(S1, c, e)

(***************************************************************************)
(* Inputs                                                                  *)
(***************************************************************************)

\* What a provider may report for one dispatch: success, a failure with an
\* error code, a failure with a message only, a failure with neither.
Outcomes ==
    { [tag |-> "ok", connected |-> TRUE, err |-> "none", code |-> FALSE],
      [tag |-> "code", connected |-> FALSE, err |-> "msg", code |-> TRUE],
      [tag |-> "nocode", connected |-> FALSE, err |-> "msg", code |-> FALSE],
      [tag |-> "silent", connected |-> FALSE, err |-> "none", code |-> FALSE] }

Desc(auth, token, pw, savePassword) ==
    [auth |-> auth, token |-> token, pw |-> pw, optPw |-> pw,
     savePassword |-> savePassword, tenant |-> FALSE]

Kinds == {"connect", "connectIfNotConnected", "connectAndSaveProfile"}

\* The options objects a caller passes: none, or one of every combination.
NoOptions == [hasOpts |-> FALSE, dialog |-> FALSE, fw |-> FALSE, save |-> FALSE]

AllOptions ==
    {NoOptions} \cup [hasOpts : {TRUE}, dialog : BOOLEAN, fw : BOOLEAN, save : BOOLEAN]

Input(kind, uri, d, o) ==
    [kind |-> kind, uri |-> uri, d |-> d, hasOpts |-> o.hasOpts, dialog |-> o.dialog,
     fw |-> o.fw, save |-> o.save]

\* The account service of a run without federated logins.
NoAccounts == [accounts |-> "none", refreshOk |-> FALSE, tokens |-> "none"]

\* The calls of the concurrency specification: a password login whose
\* password is present; connect without options or saving the connection,
\* connectIfNotConnected without saving.
ConnInputs ==
    {Input("connect", u, Desc("SqlLogin", "", TRUE, FALSE), o) :
        u \in Uris,
        o \in {NoOptions, [hasOpts |-> TRUE, dialog |-> FALSE, fw |-> TRUE, save |-> TRUE]}}
    \cup
    {Input("connectIfNotConnected", u, Desc("SqlLogin", "", TRUE, FALSE), NoOptions) :
        u \in Uris}

ConnEnvs == {NoAccounts}

\* The calls of the single-call specification: every kind of call, every
\* descriptor, every options object, on one URI.
WideDescs ==
    [auth : {"SqlLogin", azureMFA}, token : {"", "cached"}, pw : BOOLEAN,
     optPw : BOOLEAN, savePassword : BOOLEAN, tenant : BOOLEAN]

WideInputs ==
    {Input(k, "uA", d, o) :
        k \in Kinds, d \in {x \in WideDescs : x.optPw = x.pw}, o \in AllOptions}

(***************************************************************************)
(* Actions                                                                 *)
(***************************************************************************)

\* The options a call runs with: lines 372-378 (connectIfNotConnected),
\* 396-404 (connectAndSaveProfile), 428-436 (connectWithOptions).  callerOpts
\* of NewCall says that the object is the caller's own: optFw is then the
\* showFirewallRuleOnError field of that object, and fwInit the value the
\* caller gave it.
EffectiveOptions(i) ==
    IF i.kind = "connectIfNotConnected"
    THEN [hasOpts |-> TRUE, dialog |-> TRUE, fw |-> TRUE, save |-> i.hasOpts /\ i.save]
    ELSE IF i.hasOpts
    THEN [hasOpts |-> TRUE, dialog |-> i.dialog, fw |-> i.fw, save |-> i.save]
    ELSE IF i.kind = "connectAndSaveProfile"
    THEN [hasOpts |-> TRUE, dialog |-> FALSE, fw |-> TRUE, save |-> TRUE]
    ELSE [hasOpts |-> FALSE, dialog |-> FALSE, fw |-> TRUE, save |-> FALSE]

NewCall(i) ==
    LET o == EffectiveOptions(i)
    IN  [IdleCall EXCEPT !.kind = i.kind, !.uri = i.uri, !.curi = i.uri, !.d = i.d,
                         !.d0 = i.d,
                         !.hasOpts = o.hasOpts, !.optDialog = o.dialog,
                         !.optFw = o.fw, !.optSave = o.save, !.fwInit = o.fw,
                         !.callerOpts = (i.hasOpts /\ i.kind # "connectIfNotConnected")]

\* A variant whose fast path returns the URI derived from the descriptor.
StartCallDerivedUri(S, c, i, e) ==
    LET S1 == [S EXCEPT !.calls[c] = NewCall(i)]
    IN  IF i.kind = "connectAndSaveProfile"
        THEN connectWithOptions(S1, c, e)
        ELSE IF i.kind = "connectIfNotConnected" /\ csmIsConnected(S.conns, i.uri)
        THEN Settle(Tag(S1, c, "fast"), c, "fulfilled", i.uri)
        ELSE [S1 EXCEPT !.calls[c].pc = "addSavedPassword"]

\* connect (lines 338-360), connectIfNotConnected (lines 367-378) and
\* connectAndSaveProfile (lines 394-409), up to the first awaited call.
StartCall(S, c, i, e) ==
    LET S1 == [S EXCEPT !.calls[c] = NewCall(i)]
    IN  IF i.kind = "connectAndSaveProfile"
        THEN connectWithOptions(S1, c, e)
        ELSE IF i.kind = "connectIfNotConnected" /\ csmIsConnected(S.conns, i.uri)
        THEN Settle(Tag(S1, c, "fast"), c, "fulfilled",
                    csmGetOriginalOwnerUri(S.conns, i.uri))
        ELSE [S1 EXCEPT !.calls[c].pc = "addSavedPassword"]

\* A settled call's record is what its caller observed; it is dropped when
\* the client issues its next call.
Retire(S) ==
    [S EXCEPT !.calls = [c \in Ops |->
        IF S.calls[c].pc = "done" /\ S.calls[c].waiting = {}
        THEN [IdleCall EXCEPT !.pc = "retired"] ELSE S.calls[c]]]

Pending == {c \in Ops : calls[c].pc \notin {"idle", "done", "retired"}}

Connect(i, e) ==
    /\ started < MaxOps
    /\ Cardinality(Pending) < MaxPending
    /\ started' = started + 1
    /\ Set(StartCall(Retire(Cur), started + 1, i, e))

\* A call made on its own: the only call of the run.
ConnectAlone(i, e) ==
    /\ started = 0
    /\ Connect(i, e)

AddSavedPasswordDone(c, found, e) ==
    /\ calls[c].pc = "addSavedPassword"
    /\ Set(tryConnect(Cur, c, found, e))
    /\ UNCHANGED started

\* onConnectionComplete: the provider's completion for one dispatch reaches
\* the record that is current for the URI and invokes its callback.
providerOnConnectionComplete(S, m, o) ==
    LET S0 == [S EXCEPT !.inflight = @ \ {m}]
        info == csmFindConnection(S.conns, m.uri)
        S1 == [S0 EXCEPT !.conns = csmOnConnectionComplete(S.conns, m.uri, o.connected)]
        c == info.call
        r == connectHandlerResult(S1.conns, info.ownerUri, o.connected, o.err, o.code)
        S2 == connectHandler(S1, info, o.connected, o.err, o.code)
        S3 == [S2 EXCEPT !.calls[c].raw = Append(@, o.tag),
                         !.calls[c].log = @ \cup
                            (IF r.handled THEN {"stale"} ELSE {}) \cup
                            (IF r.handled /\ csmFindConnection(S2.conns, info.ownerUri).key # NoUri
                             THEN {"staleKept"} ELSE {})]
    IN  IF info.key = NoUri THEN S0
        ELSE IF S.calls[c].pc = "createNewConnection" THEN cwoThen(S3, c, r)
        ELSE S2

ConnectionComplete(m, o) ==
    /\ m \in inflight
    /\ Set(providerOnConnectionComplete(Cur, m, o))
    /\ UNCHANGED started

\* Lines 816-821: addRecentConnection settles.
MruDone(x, ok) ==
    /\ x \in mru
    /\ LET S0 == [Cur EXCEPT !.mru = @ \ {x}]
           S1 == IF ok THEN S0 ELSE Tag(S0, x.call, "mruFail")
       IN  Set(IF x.info.key = NoUri THEN S1
               ELSE connectHandler(S1, x.info, ok, IF ok THEN "none" ELSE "msg", FALSE))
    /\ UNCHANGED started

\* A variant that does not fire the connection-added event.
saveToSettingsThenSilent(S, c, newId) ==
    LET S1 == [S EXCEPT !.conns = csmUpdateConnectionProfile(S.conns, S.calls[c].curi, newId)]
        S2 == doActionsAfterConnectionComplete(S1, newId)
    IN  IF S2.exc # "" THEN cwoCatch(S2, c, S2.exc) ELSE cwoSavePassword(S2, c)

\* Lines 455-458 and 804-809: saveProfile settles; on success the registry
\* entry is reconciled, the connection-added event fires and
\* doActionsAfterConnectionComplete runs with the id saveToSettings returned.
saveToSettingsThen(S, c, newId) ==
    LET S1 == [S EXCEPT !.conns = csmUpdateConnectionProfile(S.conns, S.calls[c].curi, newId),
                        !.calls[c].added = @ + 1]
        S2 == doActionsAfterConnectionComplete(S1, newId)
    IN  IF S2.exc # "" THEN cwoCatch(S2, c, S2.exc) ELSE cwoSavePassword(S2, c)

SaveToSettingsDone(c, ok, rekey) ==
    /\ calls[c].pc = "saveToSettings"
    /\ Set(IF ok
           THEN saveToSettingsThen(Cur, c, IF rekey THEN SavedId(calls[c].curi) ELSE calls[c].curi)
           ELSE cwoCatch(Tag(Cur, c, "saveFail"), c, "SaveProfileError"))
    /\ UNCHANGED started

\* Lines 463-466: savePassword settles.
SavePasswordDone(c, ok) ==
    /\ calls[c].pc = "savePassword"
    /\ Set(IF ok THEN cwoResolve(Cur, c, calls[c].res)
           ELSE cwoCatch(Tag(Cur, c, "pwFail"), c, "SavePasswordError"))
    /\ UNCHANGED started

\* A variant that does not mark the result as handled.
handleFirewallRuleErrorUnmarked(S, c, canHandle) ==
    IF canHandle
    THEN [Tag(S, c, "canHandle") EXCEPT !.calls[c].pc = "showFirewallRuleDialog"]
    ELSE cwoResolve(Reject1(Tag(S, c, "cannotHandle"), c), c, S.calls[c].res)

\* Lines 513-521 and 498-502: the answer of handleFirewallRule.
handleFirewallRuleError(S, c, canHandle) ==
    IF canHandle
    THEN [Tag(S, c, "canHandle") EXCEPT !.calls[c].res.handled = TRUE,
                                        !.calls[c].pc = "showFirewallRuleDialog"]
    ELSE cwoResolve(Reject1(Tag(S, c, "cannotHandle"), c), c, S.calls[c].res)

HandleFirewallRuleDone(c, canHandle) ==
    /\ calls[c].pc = "handleFirewallRule"
    /\ Set(handleFirewallRuleError(Cur, c, canHandle))
    /\ UNCHANGED started

\* A variant that retries without switching firewall recovery off.
handleConnectionErrorThenKeepsRecovery(S, c, success, e) ==
    IF success
    THEN connectWithOptions([Tag(S, c, "remOk") EXCEPT !.calls[c].nested = TRUE], c, e)
    ELSE cwoResolve(Reject1(Tag(S, c, "remFail"), c), c, S.calls[c].res)

\* Lines 494-503: the continuation on handleFirewallRuleError's answer.
handleConnectionErrorThen(S, c, success, e) ==
    IF success
    THEN connectWithOptions([Tag(S, c, "remOk") EXCEPT !.calls[c].optFw = FALSE,
                                                       !.calls[c].nested = TRUE], c, e)
    ELSE cwoResolve(Reject1(Tag(S, c, "remFail"), c), c, S.calls[c].res)

ShowFirewallRuleDialogDone(c, success, e) ==
    /\ calls[c].pc = "showFirewallRuleDialog"
    /\ Set(handleConnectionErrorThen(Cur, c, success, e))
    /\ UNCHANGED started

\* Lines 323-325 and 238-241: the connection dialog closes, or fails to open.
ShowConnectionDialogDone(c, ok) ==
    /\ calls[c].pc = "showConnectionDialog"
    /\ Set(IF ok THEN resolveConnect(Cur, c, calls[c].res)
           ELSE Settle(Tag(Cur, c, "dialogFail"), c, "rejected", "DialogError"))
    /\ UNCHANGED started

\* deleteConnection, lines 970-995, with deleteConnectionFromConfiguration
\* answering at once.
deleteConnectionFromConfiguration(S, c) ==
    Settle(Tag(Tag(S, c, "configDeleted"), c, "notified"), c, "fulfilled", "true")

DeleteConnection(u) ==
    /\ started < MaxOps
    /\ Cardinality(Pending) < MaxPending
    /\ started' = started + 1
    /\ LET c == started + 1
           S1 == [Retire(Cur) EXCEPT !.calls[c] = [IdleCall EXCEPT !.kind = "deleteConnection",
                                                          !.uri = u, !.curi = u]]
       IN  Set(IF csmIsConnected(conns, u) \/ csmIsConnecting(conns, u)
               THEN [Tag(S1, c, "wasActive") EXCEPT !.calls[c].pc = "doDisconnect"]
               ELSE deleteConnectionFromConfiguration(S1, c))

\* doDisconnect: once the provider has disconnected, the registry entry is
\* deleted (marked deleted while its connect is in flight).
doDisconnect(S, u) ==
    [S EXCEPT !.conns = csmDeleteConnection(S.conns, u),
              !.calls = [c \in Ops |->
                  IF \E r \in S.conns : r.key = u /\ r.connecting /\ r.call = c
                  THEN [S.calls[c] EXCEPT !.log = @ \cup {"deletedMid"}]
                  ELSE S.calls[c]]]

\* A variant that removes the configuration whatever the disconnect reported.
deleteConnectionThenIgnoringResult(S, c, result) ==
    deleteConnectionFromConfiguration(
        Tag(S, c, IF result THEN "disconnected" ELSE "disconnectFailed"), c)

\* Lines 976-987: the continuation on doDisconnect's answer.
deleteConnectionThen(S, c, result) ==
    IF result
    THEN deleteConnectionFromConfiguration(Tag(S, c, "disconnected"), c)
    ELSE Settle(Tag(S, c, "disconnectFailed"), c, "fulfilled", "false")

DoDisconnectDone(c, result) ==
    /\ calls[c].pc = "doDisconnect"
    /\ Set(deleteConnectionThen(
              IF result THEN doDisconnect(Cur, calls[c].uri) ELSE Cur, c, result))
    /\ UNCHANGED started

\* connect and deleteConnection issued whatever is still pending, every
\* call's record being kept: the calls of a delete-then-reconnect sequence.
ConnectOverlapping(i, e) ==
    /\ started < MaxOps
    /\ started' = started + 1
    /\ Set(StartCall(Cur, started + 1, i, e))

DeleteConnectionOverlapping(u) ==
    /\ started < MaxOps
    /\ started' = started + 1
    /\ LET c == started + 1
           S1 == [Cur EXCEPT !.calls[c] = [IdleCall EXCEPT !.kind = "deleteConnection",
                                                  !.uri = u, !.curi = u]]
       IN  Set(IF csmIsConnected(conns, u) \/ csmIsConnecting(conns, u)
               THEN [Tag(S1, c, "wasActive") EXCEPT !.calls[c].pc = "doDisconnect"]
               ELSE deleteConnectionFromConfiguration(S1, c))

(***************************************************************************)
(* changeDatabase and deleteConnectionGroup                                *)
(***************************************************************************)

DbNames == {"db1"}

\* changeDatabase, lines 941-958, up to the provider's answer.  hasProvider
\* is whether getProviderIdFromUri (lines 256-262) yields a provider id.
changeDatabase(S, c, u, name, hasProvider) ==
    LET S1 == [S EXCEPT !.calls[c] = [IdleCall EXCEPT !.kind = "changeDatabase",
                                                     !.uri = u, !.curi = u, !.db = name]]
    IN  IF ~csmIsConnected(S.conns, u)
        THEN Settle(S1, c, "fulfilled", "false")
        ELSE IF ~hasProvider
        THEN Settle(Tag(S1, c, "noProvider"), c, "fulfilled", "false")
        ELSE [Tag(S1, c, "providerCalled") EXCEPT !.calls[c].pc = "changeDatabase"]

ChangeDatabase(u, name, hasProvider) ==
    /\ started < MaxOps
    /\ Cardinality(Pending) < MaxPending
    /\ started' = started + 1
    /\ Set(changeDatabase(Retire(Cur), started + 1, u, name, hasProvider))

\* A variant that stores the requested name whatever the provider answered.
changeDatabaseThenAlwaysStores(S, c, result) ==
    LET u == S.calls[c].uri
        S1 == Tag(S, c, IF result THEN "providerTrue" ELSE "providerFalse")
    IN  IF ~csmIsConnected(S.conns, u)
        THEN Settle(S1, c, "rejected", "TypeError")
        ELSE Settle([S1 EXCEPT !.conns =
                        {IF r.key = u THEN [r EXCEPT !.db = S.calls[c].db] ELSE r : r \in @}],
                    c, "fulfilled", IF result THEN "true" ELSE "false")

\* Lines 950-955: the continuation on provider.changeDatabase.
\* getConnectionProfile (lines 925-927) is undefined unless the URI is
\* connected, and the assignment to its databaseName then throws.
changeDatabaseThen(S, c, result) ==
    LET u == S.calls[c].uri
        S1 == Tag(S, c, IF result THEN "providerTrue" ELSE "providerFalse")
    IN  IF ~result
        THEN Settle(S1, c, "fulfilled", "false")
        ELSE IF ~csmIsConnected(S.conns, u)
        THEN Settle(S1, c, "rejected", "TypeError")
        ELSE Settle([S1 EXCEPT !.conns =
                        {IF r.key = u THEN [r EXCEPT !.db = S.calls[c].db] ELSE r : r \in @}],
                    c, "fulfilled", "true")

ChangeDatabaseDone(c, result) ==
    /\ calls[c].pc = "changeDatabase"
    /\ Set(changeDatabaseThen(Cur, c, result))
    /\ UNCHANGED started

\* The groups a caller deletes, each given by the URIs of its connections
\* (ConnectionProfileGroup.getConnectionsInGroup, line 1004).
ConnectionGroups == (SUBSET Uris) \ {{}}

\* Lines 1018-1021: deleteGroupFromConfiguration answering at once.
deleteGroupFromConfiguration(S, c) ==
    Settle(Tag(Tag(S, c, "groupConfigDeleted"), c, "notified"), c, "fulfilled", "true")

\* deleteConnectionGroup, lines 1001-1016: a doDisconnect is started for
\* every connection of the group that is connected.
deleteConnectionGroup(S, c, g) ==
    LET ws == {u \in g : csmIsConnected(S.conns, u)}
        S1 == [S EXCEPT !.calls[c] = [IdleCall EXCEPT !.kind = "deleteConnectionGroup",
                                                     !.group = g, !.waiting = ws]]
    IN  IF ws = {} THEN deleteGroupFromConfiguration(S1, c)
        ELSE [S1 EXCEPT !.calls[c].pc = "doDisconnectAll"]

DeleteConnectionGroup(g) ==
    /\ started < MaxOps
    /\ Cardinality(Pending) < MaxPending
    /\ started' = started + 1
    /\ Set(deleteConnectionGroup(Retire(Cur), started + 1, g))

\* Lines 1016-1022: one doDisconnect of the group settles; how is "true",
\* "false" or "reject".  Promise.all rejects with the first rejection and
\* fulfils when every disconnect has fulfilled; the continuation does not
\* look at the values.
deleteConnectionGroupThen(S, c, u, how) ==
    LET S0 == IF how = "true" THEN doDisconnect(S, u) ELSE S
        S1 == [S0 EXCEPT !.calls[c].waiting = @ \ {u},
                         !.calls[c].log = @ \cup
                            (IF how = "true" THEN {} ELSE {"disconnectFailed"})]
    IN  IF S.calls[c].pc # "doDisconnectAll" THEN S1
        ELSE IF how = "reject" THEN Settle(S1, c, "fulfilled", "false")
        ELSE IF S1.calls[c].waiting = {} THEN deleteGroupFromConfiguration(S1, c)
        ELSE S1

GroupDisconnectDone(c, u, how) ==
    /\ u \in calls[c].waiting
    /\ Set(deleteConnectionGroupThen(Cur, c, u, how))
    /\ UNCHANGED started

(***************************************************************************)
(* hasRegisteredServers                                                    *)
(***************************************************************************)

\* Groups per list and connections per group in the trees examined.
MaxWidth == 2
MaxGroupConnections == 1

SeqsUpTo(S, n) == UNION {[1..k -> S] : k \in 0..n}

\* Connection groups, by the number of their connections and their child
\* groups; the trees are two levels deep.
LeafGroups == [connections : 0..MaxGroupConnections, children : {<< >>}]

InnerGroups ==
    [connections : 0..MaxGroupConnections, children : SeqsUpTo(LeafGroups, MaxWidth)]

GroupTrees == SeqsUpTo(InnerGroups, MaxWidth)

RECURSIVE doHasRegisteredServers(_)
RECURSIVE doHasRegisteredServersLoop(_, _)

\* A variant of the loop that gives up after the first group.
doHasRegisteredServersLoopFirstOnly(root, i) ==
    IF i > Len(root) THEN FALSE
    ELSE IF root[i].connections > 0 THEN TRUE
    ELSE doHasRegisteredServers(root[i].children)

\* Lines 667-681: the loop `for (let i = 0; root.length; ++i)`.  Its
\* condition never turns false; past the end root[i] is undefined and the
\* body returns false.
doHasRegisteredServersLoop(root, i) ==
    IF i > Len(root) THEN FALSE
    ELSE IF root[i].connections > 0 THEN TRUE
    ELSE IF doHasRegisteredServers(root[i].children) THEN TRUE
    ELSE doHasRegisteredServersLoop(root, i + 1)

\* Lines 661-684.
doHasRegisteredServers(root) ==
    IF Len(root) = 0 THEN FALSE ELSE doHasRegisteredServersLoop(root, 1)

\* hasRegisteredServers, lines 654-659.
HasRegisteredServers ==
    /\ hasServers = ""
    /\ hasServers' = IF doHasRegisteredServers(groups) THEN "true" ELSE "false"
    /\ UNCHANGED <<flowVars, groups, profile, accounts, tokenFill, sgc, lang, walk>>

(***************************************************************************)
(* doHasRegisteredServers, one loop iteration at a time                    *)
(***************************************************************************)

\* stack: the frames of the calls of doHasRegisteredServers that have not
\* returned, the innermost last, each with its list `root` and its loop
\* counter `i` (counted from 0 as in the source); returning: the value the
\* innermost call is about to return ("" while it runs); read: the length of
\* the list and the index of the last `root[i]` evaluated (i = -1: none yet);
\* returned: the list, the loop counter and the value of the last call that
\* returned; result: what the outermost call returned.
NoWalk ==
    [stack |-> << >>, returning |-> "",
     read |-> [len |-> 0, i |-> -1],
     returned |-> [root |-> << >>, i |-> 0, v |-> ""],
     result |-> ""]

\* Lines 661-665: a call starts; an empty list returns false before the
\* loop, without reading anything.
doHasRegisteredServersEnter(W, root) ==
    LET W1 == [W EXCEPT !.stack = Append(@, [root |-> root, i |-> 0])]
    IN  IF Len(root) = 0
        THEN [W1 EXCEPT !.returning = "false",
                        !.returned = [root |-> root, i |-> 0, v |-> "false"]]
        ELSE W1

\* A variant of the loop body that takes a missing item for a group without
\* connections and children, and stops one position later.
doHasRegisteredServersIterateLate(W) ==
    LET f  == W.stack[Len(W.stack)]
        W1 == [W EXCEPT !.read = [len |-> Len(f.root), i |-> f.i]]
    IN  IF f.i > Len(f.root)
        THEN [W1 EXCEPT !.returning = "false",
                        !.returned = [root |-> f.root, i |-> f.i, v |-> "false"]]
        ELSE IF f.i = Len(f.root)
        THEN [W1 EXCEPT !.stack[Len(W.stack)].i = @ + 1]
        ELSE IF f.root[f.i + 1].connections > 0
        THEN [W1 EXCEPT !.returning = "true",
                        !.returned = [root |-> f.root, i |-> f.i, v |-> "true"]]
        ELSE doHasRegisteredServersEnter(W1, f.root[f.i + 1].children)

\* Lines 667-678, one pass through the loop body of the innermost call: the
\* loop condition `root.length` is not a comparison and stays true, `root[i]`
\* is evaluated, a missing item returns false (lines 670-672), a group with
\* connections returns true (lines 674-676), and otherwise the children are
\* searched by a nested call (line 678).
doHasRegisteredServersIterate(W) ==
    LET f  == W.stack[Len(W.stack)]
        W1 == [W EXCEPT !.read = [len |-> Len(f.root), i |-> f.i]]
    IN  IF f.i >= Len(f.root)
        THEN [W1 EXCEPT !.returning = "false",
                        !.returned = [root |-> f.root, i |-> f.i, v |-> "false"]]
        ELSE IF f.root[f.i + 1].connections > 0
        THEN [W1 EXCEPT !.returning = "true",
                        !.returned = [root |-> f.root, i |-> f.i, v |-> "true"]]
        ELSE doHasRegisteredServersEnter(W1, f.root[f.i + 1].children)

\* The innermost call returns.  Its caller is hasRegisteredServers (line
\* 656) or the loop of the enclosing call (lines 678-680), which returns
\* true in its turn or goes on with ++i.
doHasRegisteredServersReturn(W) ==
    LET rest == SubSeq(W.stack, 1, Len(W.stack) - 1)
        W1   == [W EXCEPT !.stack = rest]
    IN  IF Len(rest) = 0
        THEN [W1 EXCEPT !.returning = "", !.result = W.returning]
        ELSE IF W.returning = "true"
        THEN [W1 EXCEPT !.returned = [root |-> rest[Len(rest)].root,
                                      i |-> rest[Len(rest)].i, v |-> "true"]]
        ELSE [W1 EXCEPT !.returning = "", !.stack[Len(rest)].i = @ + 1]

\* hasRegisteredServers, lines 654-656: the search starts on the group tree.
HasRegisteredServersCall ==
    /\ walk = NoWalk
    /\ walk' = doHasRegisteredServersEnter(walk, groups)
    /\ UNCHANGED <<flowVars, groups, hasServers, profile, accounts, tokenFill, sgc, lang>>

DoHasRegisteredServersIterate ==
    /\ walk.stack # << >>
    /\ walk.returning = ""
    /\ walk' = doHasRegisteredServersIterate(walk)
    /\ UNCHANGED <<flowVars, groups, hasServers, profile, accounts, tokenFill, sgc, lang>>

\* With the return of the outermost call hasRegisteredServers has its answer
\* (lines 656-658).
DoHasRegisteredServersReturn ==
    /\ walk.stack # << >>
    /\ walk.returning # ""
    /\ walk' = doHasRegisteredServersReturn(walk)
    /\ hasServers' = IF Len(walk.stack) = 1 THEN walk.returning ELSE hasServers
    /\ UNCHANGED <<flowVars, groups, profile, accounts, tokenFill, sgc, lang>>

(***************************************************************************)
(* fillInOrClearAzureToken called on its own                               *)
(***************************************************************************)

FillInOrClearAzureToken ==
    /\ tokenFill = ""
    /\ profile' = fillInOrClearAzureToken(profile, accounts).d
    /\ tokenFill' = IF fillInOrClearAzureToken(profile, accounts).ok THEN "true" ELSE "false"
    /\ UNCHANGED <<flowVars, groups, hasServers, accounts, sgc, lang, walk>>

(***************************************************************************)
(* ServerGroupController (part_000 lines 18-110)                           *)
(***************************************************************************)

\* Failed saves after which the user gives up.
MaxErrors == 2

\* name, color and description of a group or of the view model.
GroupFields == [name : {"n0", "n1"}, color : {"c0", "c1"}, description : {"d0", "d1"}]

NoFields == [name |-> "", color |-> "", description |-> ""]

\* group: the fields of the object passed to showEditGroupDialog;
\* cur: what this._group refers to ("null", "passed": that object, "copy": a
\* copy made by copyConnectionProfileGroup); copy: the fields of that copy;
\* temp: tempGroup of the handler that is waiting; vm: the view model;
\* before: the fields the passed object had when the handler last started;
\* promise: the promise returned by openServerGroupDialog ("none" before the
\* call, then "pending", "fulfilled" or "rejected"); closed: the number of
\* callbacks.onClose invocations.
NoController ==
    [group |-> NoFields, cur |-> "null", copy |-> NoFields, temp |-> NoFields,
     vm |-> NoFields, callbacks |-> FALSE, dialog |-> "none", pending |-> "",
     errors |-> 0, added |-> 0, before |-> NoFields, last |-> "",
     promise |-> "none", closed |-> 0]

\* openServerGroupDialog, lines 91-108: the dialog is opened inside the
\* executor of the promise that is returned; the executor takes no resolve
\* and no reject function, so nothing it does settles that promise.
openServerGroupDialog(C) ==
    [C EXCEPT !.dialog = "open", !.promise = "pending"]

\* showEditGroupDialog, lines 85-89, and openServerGroupDialog, lines 91-108.
showEditGroupDialog(C, g) ==
    openServerGroupDialog([C EXCEPT !.group = g, !.cur = "passed", !.vm = g])

\* showCreateGroupDialog, lines 78-83.
showCreateGroupDialog(C, hasCallbacks) ==
    openServerGroupDialog(
        [C EXCEPT !.cur = "null", !.vm = NoFields, !.callbacks = hasCallbacks])

\* handleOnAddServerGroup, lines 34-65, up to the awaited call; v is what
\* the view model holds when the button is pressed.
handleOnAddServerGroup(C0, v) ==
    LET C == [C0 EXCEPT !.vm = v, !.last = "", !.before = C0.group]
    IN  IF C.cur = "passed"
        THEN [C EXCEPT !.temp = C.group, !.group = v, !.pending = "editGroup"]
        ELSE IF C.cur = "copy"
        THEN [C EXCEPT !.temp = C.copy, !.copy = v, !.pending = "editGroup"]
        ELSE [C EXCEPT !.pending = "saveProfileGroup"]

\* Lines 40-46: editGroup settles.
editGroupThen(C, ok) ==
    IF ok
    THEN [C EXCEPT !.pending = "", !.dialog = "closed", !.last = "ok"]
    ELSE [C EXCEPT !.pending = "", !.cur = "copy", !.copy = C.temp,
                   !.errors = @ + 1, !.last = "fail"]

\* Lines 56-63: saveProfileGroup settles.
saveProfileGroupThen(C, ok) ==
    IF ok
    THEN [C EXCEPT !.pending = "", !.dialog = "closed", !.last = "ok",
                   !.added = IF C.callbacks THEN @ + 1 ELSE @]
    ELSE [C EXCEPT !.pending = "", !.errors = @ + 1, !.last = "fail"]

\* handleOnClose, lines 71-75, run by the dialog's close event.
handleOnClose(C) ==
    [C EXCEPT !.dialog = "closed", !.closed = IF C.callbacks THEN @ + 1 ELSE @]

ShowEditGroupDialog(g) ==
    /\ sgc.dialog = "none"
    /\ sgc' = showEditGroupDialog(sgc, g)
    /\ UNCHANGED <<flowVars, groups, hasServers, profile, accounts, tokenFill, lang, walk>>

ShowCreateGroupDialog(hasCallbacks) ==
    /\ sgc.dialog = "none"
    /\ sgc' = showCreateGroupDialog(sgc, hasCallbacks)
    /\ UNCHANGED <<flowVars, groups, hasServers, profile, accounts, tokenFill, lang, walk>>

HandleOnAddServerGroup(v) ==
    /\ sgc.dialog = "open"
    /\ sgc.pending = ""
    /\ sgc.errors < MaxErrors
    /\ sgc' = handleOnAddServerGroup(sgc, v)
    /\ UNCHANGED <<flowVars, groups, hasServers, profile, accounts, tokenFill, lang, walk>>

\* The user closes the dialog while no save is awaited.
HandleOnClose ==
    /\ sgc.dialog = "open"
    /\ sgc.pending = ""
    /\ sgc' = handleOnClose(sgc)
    /\ UNCHANGED <<flowVars, groups, hasServers, profile, accounts, tokenFill, lang, walk>>

EditGroupDone(ok) ==
    /\ sgc.pending = "editGroup"
    /\ sgc' = editGroupThen(sgc, ok)
    /\ UNCHANGED <<flowVars, groups, hasServers, profile, accounts, tokenFill, lang, walk>>

SaveProfileGroupDone(ok) ==
    /\ sgc.pending = "saveProfileGroup"
    /\ sgc' = saveProfileGroupThen(sgc, ok)
    /\ UNCHANGED <<flowVars, groups, hasServers, profile, accounts, tokenFill, lang, walk>>

(***************************************************************************)
(* Language flavor (part_000 lines 702-736)                                *)
(***************************************************************************)

Providers == {"MSSQL", "PGSQL"}

\* registered: the keys of _providers; uriProvider: what getProviderIdFromUri
\* (lines 256-262) returns for the URI ("" for undefined); default: the
\* configured default engine ("" for none); op, arg: the call made; fired,
\* flavor: the language-flavor-changed notifications and the last flavor
\* sent; threw: whether the call threw.
NoFlavor ==
    [registered |-> {}, uriProvider |-> "", default |-> "", op |-> "", arg |-> "",
     fired |-> 0, flavor |-> "", threw |-> FALSE]

FlavorEnvs ==
    [registered : SUBSET Providers, uriProvider : Providers \cup {""},
     default : Providers \cup {""}, op : {""}, arg : {""}, fired : {0},
     flavor : {""}, threw : {FALSE}]

\* doChangeLanguageFlavor, lines 711-721.
doChangeLanguageFlavor(L, provider) ==
    IF provider \in L.registered
    THEN [L EXCEPT !.fired = @ + 1, !.flavor = provider]
    ELSE [L EXCEPT !.threw = TRUE]

\* A variant that does not look the default provider up among the
\* registered ones.
ensureDefaultLanguageFlavorUnchecked(L) ==
    IF L.uriProvider = ""
    THEN IF L.default # ""
         THEN doChangeLanguageFlavor(L, L.default)
         ELSE L
    ELSE L

\* ensureDefaultLanguageFlavor, lines 727-736.
ensureDefaultLanguageFlavor(L) ==
    IF L.uriProvider = ""
    THEN IF L.default # "" /\ L.default \in L.registered
         THEN doChangeLanguageFlavor(L, L.default)
         ELSE L
    ELSE L

DoChangeLanguageFlavor(provider) ==
    /\ lang.op = ""
    /\ lang' = doChangeLanguageFlavor(
                    [lang EXCEPT !.op = "doChangeLanguageFlavor", !.arg = provider], provider)
    /\ UNCHANGED <<flowVars, groups, hasServers, profile, accounts, tokenFill, sgc, walk>>

EnsureDefaultLanguageFlavor ==
    /\ lang.op = ""
    /\ lang' = ensureDefaultLanguageFlavor(
                    [lang EXCEPT !.op = "ensureDefaultLanguageFlavor"])
    /\ UNCHANGED <<flowVars, groups, hasServers, profile, accounts, tokenFill, sgc, walk>>

(***************************************************************************)
(* Specification                                                           *)
(***************************************************************************)

Init ==
    /\ conns = {}
    /\ inflight = {}
    /\ mru = {}
    /\ calls = [c \in Ops |-> IdleCall]
    /\ started = 0
    /\ groups = << >>
    /\ hasServers = ""
    /\ profile = NoDesc
    /\ accounts = NoAccounts
    /\ tokenFill = ""
    /\ sgc = NoController
    /\ lang = NoFlavor
    /\ walk = NoWalk

\* Overlapping calls.  The descriptors of ConnInputs do not ask for the
\* password to be saved, so no savePassword call is ever outstanding here.
Next ==
    \/ \E i \in ConnInputs, e \in ConnEnvs : Connect(i, e)
    \/ \E u \in Uris : DeleteConnection(u)
    \/ \E c \in Ops, found \in BOOLEAN, e \in ConnEnvs : AddSavedPasswordDone(c, found, e)
    \/ \E m \in inflight, o \in Outcomes : ConnectionComplete(m, o)
    \/ \E x \in mru, ok \in BOOLEAN : MruDone(x, ok)
    \/ \E c \in Ops, ok \in BOOLEAN, rekey \in BOOLEAN : SaveToSettingsDone(c, ok, rekey)
    \/ \E c \in Ops, canHandle \in BOOLEAN : HandleFirewallRuleDone(c, canHandle)
    \/ \E c \in Ops, success \in BOOLEAN, e \in ConnEnvs : ShowFirewallRuleDialogDone(c, success, e)
    \/ \E c \in Ops, ok \in BOOLEAN : ShowConnectionDialogDone(c, ok)
    \/ \E c \in Ops, result \in BOOLEAN : DoDisconnectDone(c, result)

Spec == Init /\ [][Next]_vars

\* One call on its own, over every input and every answer of the account
\* service.
NextOne ==
    \/ \E i \in WideInputs, e \in AccountEnvs : ConnectAlone(i, e)
    \/ \E c \in Ops, found \in BOOLEAN, e \in AccountEnvs : AddSavedPasswordDone(c, found, e)
    \/ \E m \in inflight, o \in Outcomes : ConnectionComplete(m, o)
    \/ \E x \in mru, ok \in BOOLEAN : MruDone(x, ok)
    \/ \E c \in Ops, ok \in BOOLEAN, rekey \in BOOLEAN : SaveToSettingsDone(c, ok, rekey)
    \/ \E c \in Ops, ok \in BOOLEAN : SavePasswordDone(c, ok)
    \/ \E c \in Ops, canHandle \in BOOLEAN : HandleFirewallRuleDone(c, canHandle)
    \/ \E c \in Ops, success \in BOOLEAN, e \in AccountEnvs : ShowFirewallRuleDialogDone(c, success, e)
    \/ \E c \in Ops, ok \in BOOLEAN : ShowConnectionDialogDone(c, ok)

SpecOne == Init /\ [][NextOne]_vars

\* Connects followed or overlapped by changeDatabase and deleteConnectionGroup
\* calls: connect without options for a password login with or without its
\* password, and connectAndSaveProfile for one without, saving nothing.
AdminInputs ==
    {Input("connect", u, Desc("SqlLogin", "", pw, FALSE), NoOptions) :
        u \in Uris, pw \in BOOLEAN}
    \cup
    {Input("connectAndSaveProfile", u, Desc("SqlLogin", "", FALSE, FALSE),
           [hasOpts |-> TRUE, dialog |-> FALSE, fw |-> FALSE, save |-> FALSE]) :
        u \in Uris}

NextAdmin ==
    \/ \E i \in AdminInputs, e \in ConnEnvs : Connect(i, e)
    \/ \E u \in Uris, name \in DbNames, hasProvider \in BOOLEAN :
            ChangeDatabase(u, name, hasProvider)
    \/ \E g \in ConnectionGroups : DeleteConnectionGroup(g)
    \/ \E c \in Ops, found \in BOOLEAN, e \in ConnEnvs : AddSavedPasswordDone(c, found, e)
    \/ \E m \in inflight, o \in Outcomes : ConnectionComplete(m, o)
    \/ \E c \in Ops, canHandle \in BOOLEAN : HandleFirewallRuleDone(c, canHandle)
    \/ \E c \in Ops, success \in BOOLEAN, e \in ConnEnvs : ShowFirewallRuleDialogDone(c, success, e)
    \/ \E c \in Ops, result \in BOOLEAN : ChangeDatabaseDone(c, result)
    \/ \E c \in Ops, u \in Uris, how \in {"true", "false", "reject"} :
            GroupDisconnectDone(c, u, how)

SpecAdmin == Init /\ [][NextAdmin]_vars

\* Connects and deletes on one URI, overlapping freely: a password login
\* whose password is present, with options that switch off the dialog,
\* firewall recovery and saving.
RaceInputs ==
    {Input("connect", "uA", Desc("SqlLogin", "", TRUE, FALSE),
           [hasOpts |-> TRUE, dialog |-> FALSE, fw |-> FALSE, save |-> FALSE])}

NextRace ==
    \/ \E i \in RaceInputs, e \in ConnEnvs : ConnectOverlapping(i, e)
    \/ DeleteConnectionOverlapping("uA")
    \/ \E c \in Ops, found \in BOOLEAN, e \in ConnEnvs : AddSavedPasswordDone(c, found, e)
    \/ \E m \in inflight, o \in Outcomes : ConnectionComplete(m, o)
    \/ \E c \in Ops, result \in BOOLEAN : DoDisconnectDone(c, result)

SpecRace == Init /\ [][NextRace]_vars

\* The server-group dialog, opened once for a new group or for a group to
\* edit.
NextGroupDialog ==
    \/ \E g \in GroupFields : ShowEditGroupDialog(g)
    \/ \E hasCallbacks \in BOOLEAN : ShowCreateGroupDialog(hasCallbacks)
    \/ \E v \in GroupFields : HandleOnAddServerGroup(v)
    \/ \E ok \in BOOLEAN : EditGroupDone(ok)
    \/ \E ok \in BOOLEAN : SaveProfileGroupDone(ok)
    \/ HandleOnClose

SpecGroupDialog == Init /\ [][NextGroupDialog]_vars

\* The same dialog with the scheduling the event loop gives: an editGroup or
\* saveProfileGroup call that was started settles, and its continuation
\* runs. What the user does with the open dialog is not forced.
SpecGroupDialogFair ==
    /\ SpecGroupDialog
    /\ WF_vars(\E ok \in BOOLEAN : EditGroupDone(ok))
    /\ WF_vars(\E ok \in BOOLEAN : SaveProfileGroupDone(ok))

\* One language-flavor call, over every set of registered providers, every
\* provider of the URI and every configured default.
InitFlavor ==
    /\ conns = {} /\ inflight = {} /\ mru = {}
    /\ calls = [c \in Ops |-> IdleCall]
    /\ started = 0
    /\ groups = << >> /\ hasServers = ""
    /\ profile = NoDesc /\ accounts = NoAccounts /\ tokenFill = ""
    /\ sgc = NoController
    /\ lang \in FlavorEnvs
    /\ walk = NoWalk

NextFlavor ==
    \/ \E provider \in Providers : DoChangeLanguageFlavor(provider)
    \/ EnsureDefaultLanguageFlavor

SpecFlavor == InitFlavor /\ [][NextFlavor]_vars

\* hasRegisteredServers over every tree of groups.
InitGroups ==
    /\ conns = {} /\ inflight = {} /\ mru = {}
    /\ calls = [c \in Ops |-> IdleCall]
    /\ started = 0
    /\ groups \in GroupTrees
    /\ hasServers = ""
    /\ profile = NoDesc /\ accounts = NoAccounts /\ tokenFill = ""
    /\ sgc = NoController /\ lang = NoFlavor /\ walk = NoWalk

NextGroups == HasRegisteredServers

SpecGroups == InitGroups /\ [][NextGroups]_vars

\* The same search over every tree of groups, one loop iteration at a time.
NextWalk ==
    \/ HasRegisteredServersCall
    \/ DoHasRegisteredServersIterate
    \/ DoHasRegisteredServersReturn

\* The search is synchronous code: once it is called it runs on.
SpecWalk ==
    /\ InitGroups
    /\ [][NextWalk]_vars
    /\ WF_vars(DoHasRegisteredServersIterate)
    /\ WF_vars(DoHasRegisteredServersReturn)

\* fillInOrClearAzureToken over every descriptor and every answer of the
\* account service.
InitToken ==
    /\ conns = {} /\ inflight = {} /\ mru = {}
    /\ calls = [c \in Ops |-> IdleCall]
    /\ started = 0
    /\ groups = << >> /\ hasServers = ""
    /\ profile \in WideDescs
    /\ accounts \in AccountEnvs
    /\ tokenFill = ""
    /\ sgc = NoController /\ lang = NoFlavor /\ walk = NoWalk

NextToken == FillInOrClearAzureToken

SpecToken == InitToken /\ [][NextToken]_vars

(***************************************************************************)
(* Properties of overlapping calls (Spec)                                  *)
(***************************************************************************)

C2_EveryConnectSettles ==
    \A c \in Ops :
        calls[c].pc = "createNewConnection" =>
            \E m \in inflight : m.uri = calls[c].curi

\* C3, as claimed: the completion callback of an attempt record is invoked
\* exactly once, the provider's completion and tryAddActiveConnection
\* counted together: never a second time.
C3_HandlerFiresOnce ==
    \A c \in Ops : calls[c].fired <= 1

\* C4, as claimed: when the attempt of a connect was deleted while in flight
\* and its completion found the record flagged deleted, the connect fulfils
\* (it does not reject) with errorHandled = true, with connected = true when
\* the provider reported success, and the callback leaves no entry for the
\* URI in the registry.
C4_DeletedMidFlightResolves ==
    \A c \in Ops :
        (calls[c].pc = "done" /\ calls[c].kind = "connect" /\ "stale" \in calls[c].log) =>
            /\ calls[c].out = "fulfilled"
            /\ calls[c].val = "result"
            /\ calls[c].res.handled
            /\ (calls[c].raw[Len(calls[c].raw)] = "ok" => calls[c].res.connected)
            /\ "staleKept" \notin calls[c].log

\* C7: a connectIfNotConnected issued while the registry reports the derived
\* owner URI as connected settles in the same step: no credential lookup is
\* awaited, nothing is dispatched, the registry is left as it was, and the
\* call fulfils with the registry's canonical URI for the derived one, which
\* is therefore what a second call in sequence returns as well.
C7_FastPath ==
    [][\A c \in Ops :
        (/\ calls[c].pc = "idle"
         /\ calls'[c].kind = "connectIfNotConnected"
         /\ csmIsConnected(conns, calls'[c].uri))
        => (/\ calls'[c].pc = "done"
            /\ calls'[c].out = "fulfilled"
            /\ calls'[c].val = csmGetOriginalOwnerUri(conns', calls'[c].uri)
            /\ calls'[c].ndisp = 0 /\ calls'[c].cbStart = 0
            /\ conns' = conns /\ inflight' = inflight /\ mru' = mru)]_vars

\* A fast-path call on a URI whose record was saved under another id: the
\* canonical URI returned differs from the derived one.
C7_Witness ==
    \E c \in Ops :
        /\ calls[c].kind = "connectIfNotConnected"
        /\ "fast" \in calls[c].log
        /\ calls[c].pc = "done"
        /\ calls[c].val # calls[c].uri
        /\ calls[c].val = csmGetOriginalOwnerUri(conns, calls[c].uri)

C5_AtMostTwoDispatches ==
    \A c \in Ops :
        /\ calls[c].ndisp <= 2
        /\ (/\ calls[c].pc = "done"
            /\ calls[c].fwInit
            /\ calls[c].raw # <<>>
            /\ \A n \in 1..Len(calls[c].raw) : calls[c].raw[n] = "code"
            /\ calls[c].log \cap {"cannotHandle", "remFail"} = {})
           => calls[c].ndisp = 2

\* A call settled after two failures with an error code, the first remedied.
C5_Witness ==
    \E c \in Ops :
        /\ calls[c].pc = "done"
        /\ calls[c].raw = <<"code", "code">>
        /\ "remOk" \in calls[c].log
        /\ calls[c].ndisp = 2

\* C6: when the first dispatch fails with an error code, the delegate can
\* handle it, remediation succeeds and the second dispatch succeeds, then
\* (no save of the connection or of its password having failed) the call
\* fulfils with connected = true after exactly two dispatches and the
\* registry holds a connected record for the call's URI.
C6_RetrySucceeds ==
    \A c \in Ops :
        (/\ calls[c].pc = "done"
         /\ calls[c].raw = <<"code", "ok">>
         /\ calls[c].log \cap {"mruFail", "saveFail", "pwFail"} = {})
        => (/\ calls[c].out = "fulfilled"
            /\ calls[c].res.connected
            /\ calls[c].ndisp = 2
            /\ \E r \in conns : r.ownerUri = calls[c].curi /\ r.connected /\ ~r.deleted)

\* A connect that was remedied once and then connected.
C6_Witness ==
    \E c \in Ops :
        /\ calls[c].pc = "done"
        /\ calls[c].kind = "connect"
        /\ calls[c].raw = <<"code", "ok">>
        /\ {"canHandle", "remOk"} \subseteq calls[c].log
        /\ calls[c].out = "fulfilled"
        /\ calls[c].res.connected

\* C8: a connectIfNotConnected that does not take the fast path runs the
\* connect flow with the connection dialog and firewall recovery enabled; it
\* fulfils only when the result is connected, with the canonical URI, and it
\* rejects with the result's error message whenever connect ends with a
\* result that is not connected (an error already handled and a short-circuit
\* before dispatch included).
C8_ConnectIfNotConnected ==
    \A c \in Ops :
        (calls[c].kind = "connectIfNotConnected" /\ "fast" \notin calls[c].log) =>
            /\ calls[c].hasOpts /\ calls[c].optDialog /\ calls[c].fwInit
            /\ calls[c].pc = "done" =>
                /\ calls[c].out = "fulfilled" =>
                    /\ calls[c].res.connected
                    /\ calls[c].val = csmGetOriginalOwnerUri(conns, calls[c].uri)
                /\ (~calls[c].res.connected /\ "dialogFail" \notin calls[c].log) =>
                    /\ calls[c].out = "rejected"
                    /\ calls[c].val = calls[c].res.err

\* A connectIfNotConnected rejected with the message of an error that the
\* firewall delegate had already handled.
C8_Witness ==
    \E c \in Ops :
        /\ calls[c].kind = "connectIfNotConnected"
        /\ calls[c].pc = "done"
        /\ calls[c].res.handled /\ ~calls[c].res.connected
        /\ calls[c].out = "rejected"
        /\ calls[c].val = "msg"

\* C9: for a descriptor whose authentication type is not the federated one,
\* once a connect attempt has gone through credential resolution the
\* descriptor it works on carries no azureAccountToken, whatever token the
\* caller had put there.
C9_TokenCleared ==
    \A c \in Ops :
        (/\ calls[c].kind \in Kinds
         /\ calls[c].d0.auth # azureMFA
         /\ "fast" \notin calls[c].log
         /\ calls[c].pc \notin {"idle", "addSavedPassword"})
        => calls[c].d.token = ""

\* A settled call whose descriptor came with a token and a password login.
C9_Witness ==
    \E c \in Ops :
        /\ calls[c].pc = "done"
        /\ calls[c].d0.auth = "SqlLogin"
        /\ calls[c].d0.token = "cached"
        /\ calls[c].ndisp > 0
        /\ calls[c].d.token = ""

\* C10, as amended: for a federated descriptor without a cached token, when
\* no account matches, no dispatch is made and no attempt record is created;
\* connectAndSaveProfile rejects with the token error, whereas connect takes
\* the show-dialog-on-error path and fulfils with connected = false (or
\* rejects with the dialog's own error), and connectIfNotConnected rejects.
C10_TokenFailure ==
    \A c \in Ops :
        (/\ calls[c].d0.auth = azureMFA
         /\ calls[c].d0.token = ""
         /\ "noMatch" \in calls[c].log)
        => (/\ calls[c].ndisp = 0
            /\ conns = {} /\ inflight = {}
            /\ calls[c].pc \in {"showConnectionDialog", "done"}
            /\ calls[c].pc = "done" =>
                /\ calls[c].kind = "connectAndSaveProfile" =>
                    calls[c].out = "rejected" /\ calls[c].val = "TokenError"
                /\ calls[c].kind = "connect" =>
                    \/ /\ calls[c].out = "fulfilled"
                       /\ calls[c].val = "result"
                       /\ ~calls[c].res.connected
                    \/ /\ "dialogFail" \in calls[c].log
                       /\ calls[c].out = "rejected"
                       /\ calls[c].val = "DialogError"
                /\ calls[c].kind = "connectIfNotConnected" =>
                    calls[c].out = "rejected" /\ calls[c].val # "TokenError")

\* A connect that found no account and fulfilled with connected = false.
C10_Witness ==
    \E c \in Ops :
        /\ calls[c].kind = "connect"
        /\ calls[c].d0.auth = azureMFA /\ calls[c].d0.token = ""
        /\ "noMatch" \in calls[c].log
        /\ calls[c].pc = "done"
        /\ calls[c].out = "fulfilled"
        /\ ~calls[c].res.connected
        /\ calls[c].ndisp = 0

\* C10, as claimed: with a federated descriptor, no cached token and no
\* matching account, connect rejects with the token error, having dispatched
\* nothing and created no record.
C10_ConnectRejects ==
    \A c \in Ops :
        (/\ calls[c].kind = "connect"
         /\ calls[c].d0.auth = azureMFA /\ calls[c].d0.token = ""
         /\ "noMatch" \in calls[c].log
         /\ calls[c].pc = "done")
        => (/\ calls[c].out = "rejected"
            /\ calls[c].val = "TokenError"
            /\ calls[c].ndisp = 0
            /\ conns = {})

\* C11, as claimed: when a connect or connectAndSaveProfile call has settled,
\* onConnectSuccess was invoked exactly if the promise fulfilled with
\* connected = true, onConnectReject was invoked exactly if the promise
\* rejected or fulfilled with connected = false, and not both were invoked.
C11_CallbacksMatchPromise ==
    \A c \in Ops :
        (calls[c].pc = "done" /\ calls[c].kind \in {"connect", "connectAndSaveProfile"}) =>
            /\ (calls[c].cbSuccess > 0) <=>
                    (calls[c].out = "fulfilled" /\ calls[c].res.connected)
            /\ (calls[c].cbReject > 0) <=>
                    (calls[c].out = "rejected" \/ ~calls[c].res.connected)
            /\ ~(calls[c].cbSuccess > 0 /\ calls[c].cbReject > 0)

\* C12: a connect with a password login whose password is present, whose one
\* dispatch the provider completes with success (no save of the connection or
\* of its password having failed), has dispatched exactly once and fulfils
\* with connected = true and no error message, and the registry holds a
\* connected record for the URI: under the URI itself when the connection is
\* not saved.
C12_PasswordConnectSucceeds ==
    \A c \in Ops :
        (/\ calls[c].pc = "done"
         /\ calls[c].kind = "connect"
         /\ calls[c].d0.auth = "SqlLogin" /\ calls[c].d0.pw
         /\ calls[c].raw = <<"ok">>
         /\ calls[c].log \cap {"mruFail", "saveFail", "pwFail"} = {})
        => (/\ calls[c].ndisp = 1
            /\ calls[c].out = "fulfilled"
            /\ calls[c].val = "result"
            /\ calls[c].res.connected
            /\ calls[c].res.err = "none"
            /\ \E r \in conns : r.ownerUri = calls[c].curi /\ r.connected /\ ~r.deleted
            /\ ~calls[c].optSave => csmIsConnected(conns, calls[c].uri))

\* A connect without options that connected at the first dispatch.
C12_Witness ==
    \E c \in Ops :
        /\ calls[c].pc = "done"
        /\ calls[c].kind = "connect"
        /\ ~calls[c].hasOpts
        /\ calls[c].d0.auth = "SqlLogin" /\ calls[c].d0.pw
        /\ calls[c].raw = <<"ok">>
        /\ calls[c].res.connected
        /\ csmIsConnected(conns, calls[c].uri)

\* C13: a deleteConnection on a URI that is connected or connecting removes
\* the persisted configuration only after its disconnect has completed with
\* success; when the disconnect reports failure the configuration is not
\* touched, the connection-deleted notification is not fired and the call
\* returns false.
C13_DisconnectBeforeDelete ==
    \A c \in Ops :
        (calls[c].kind = "deleteConnection" /\ "wasActive" \in calls[c].log) =>
            /\ calls[c].pc = "doDisconnect" =>
                 calls[c].log \cap {"configDeleted", "notified"} = {}
            /\ "configDeleted" \in calls[c].log => "disconnected" \in calls[c].log
            /\ "disconnectFailed" \in calls[c].log =>
                /\ calls[c].log \cap {"configDeleted", "notified"} = {}
                /\ calls[c].pc = "done"
                /\ calls[c].out = "fulfilled"
                /\ calls[c].val = "false"

\* A deleteConnection of an active connection whose disconnect failed, and
\* which returned false.
C13_Witness ==
    \E c \in Ops :
        /\ calls[c].kind = "deleteConnection"
        /\ "wasActive" \in calls[c].log
        /\ "disconnectFailed" \in calls[c].log
        /\ calls[c].val = "false"

\* C17, as amended: a call that ends connected has fired the
\* connection-added notification exactly once when it ran with
\* saveTheConnection (with or without a recovery retry), and has not fired
\* it when it ran without.
C17_ConnectionAddedWhenSaved ==
    \A c \in Ops :
        (/\ calls[c].pc = "done"
         /\ calls[c].kind \in Kinds
         /\ calls[c].out = "fulfilled"
         /\ calls[c].res.connected)
        => calls[c].added = (IF calls[c].optSave THEN 1 ELSE 0)

\* A saving call that connected at its recovery retry: one notification.
C17_Witness ==
    \E c \in Ops :
        /\ calls[c].pc = "done"
        /\ calls[c].out = "fulfilled"
        /\ calls[c].res.connected
        /\ calls[c].optSave
        /\ calls[c].raw = <<"code", "ok">>
        /\ calls[c].added = 1

\* C17, as claimed: every call that ends connected, with or without
\* saveTheConnection, has fired the connection-added notification exactly
\* once.
C17_ConnectionAddedOnce ==
    \A c \in Ops :
        (/\ calls[c].pc = "done"
         /\ calls[c].kind \in Kinds
         /\ calls[c].out = "fulfilled"
         /\ calls[c].res.connected)
        => calls[c].added = 1

\* C18: when the last dispatch of a connect or connectAndSaveProfile call
\* failed with an error message and the call has settled (remediation was
\* not applicable, was declined or failed, or had been used up by a retry),
\* every dispatch made has been answered and none was added, onConnectReject
\* was invoked once, with the generic "Connection Not Accepted" failure, and
\* (the dialog not failing) the call fulfils with the failed result.
C18_RemediationUnavailable ==
    \A c \in Ops :
        (/\ calls[c].pc = "done"
         /\ calls[c].kind \in {"connect", "connectAndSaveProfile"}
         /\ calls[c].raw # << >>
         /\ calls[c].raw[Len(calls[c].raw)] \in {"code", "nocode"}
         /\ "dialogFail" \notin calls[c].log)
        => (/\ calls[c].ndisp = Len(calls[c].raw)
            /\ "notAccepted" \in calls[c].log
            /\ "rejectErr" \notin calls[c].log
            /\ calls[c].cbReject = 1
            /\ calls[c].out = "fulfilled"
            /\ calls[c].val = "result"
            /\ ~calls[c].res.connected
            /\ calls[c].res.err = "msg")

\* A call whose failure the firewall delegate could not handle.
C18_Witness ==
    \E c \in Ops :
        /\ calls[c].pc = "done"
        /\ calls[c].kind = "connect"
        /\ calls[c].raw = <<"code">>
        /\ "cannotHandle" \in calls[c].log
        /\ "notAccepted" \in calls[c].log
        /\ calls[c].out = "fulfilled"
        /\ ~calls[c].res.connected

\* C21: when the matching account is stale and the user cancels its refresh,
\* fillInOrClearAzureToken returns false without raising: getSecurityToken is
\* not called, the descriptor carries no token, nothing is dispatched and no
\* attempt record is created; connect and connectIfNotConnected take the
\* token-failure branch of tryConnect, connectAndSaveProfile rejects with
\* connectWithOptions' own token error.
C21_RefreshCancelled ==
    \A c \in Ops :
        "refreshCancelled" \in calls[c].log =>
            /\ "tokensFetched" \notin calls[c].log
            /\ calls[c].d.token = ""
            /\ calls[c].ndisp = 0
            /\ conns = {} /\ inflight = {}
            /\ calls[c].kind # "connectAndSaveProfile" => "tokenFail" \in calls[c].log
            /\ (calls[c].pc = "done" /\ "dialogFail" \notin calls[c].log) =>
                /\ calls[c].kind = "connectAndSaveProfile" =>
                    calls[c].out = "rejected" /\ calls[c].val = "TokenError"
                /\ calls[c].kind = "connect" =>
                    /\ calls[c].out = "fulfilled"
                    /\ calls[c].val = "result"
                    /\ ~calls[c].res.connected

\* A connect whose stale account was not refreshed, and which dispatched
\* nothing.
C21_Witness ==
    \E c \in Ops :
        /\ calls[c].kind = "connect"
        /\ calls[c].d0.auth = azureMFA /\ calls[c].d0.token = ""
        /\ "refreshCancelled" \in calls[c].log
        /\ calls[c].pc = "done"
        /\ calls[c].out = "fulfilled"
        /\ calls[c].ndisp = 0

\* C24: saveProfile is called only with saveTheConnection and savePassword
\* only with the descriptor's savePassword flag, both only after a dispatch
\* that the provider completed with success; once a dispatch has succeeded
\* saveProfile has been called exactly when saveTheConnection is set, and
\* when the call has settled (no write to the recent-connections list or to
\* the saved profiles having failed) savePassword has been called exactly
\* when the flag is set.  A call whose dispatches all failed has written to
\* neither store.
C24_StoresWritten ==
    \A c \in Ops :
        calls[c].kind \in Kinds =>
            /\ "saveProfile" \in calls[c].log => calls[c].optSave
            /\ "savePassword" \in calls[c].log => calls[c].d.savePassword
            /\ calls[c].log \cap {"saveProfile", "savePassword"} # {} =>
                 (calls[c].raw # << >> /\ calls[c].raw[Len(calls[c].raw)] = "ok")
            /\ (calls[c].raw # << >> /\ calls[c].raw[Len(calls[c].raw)] = "ok") =>
                 /\ "saveProfile" \in calls[c].log <=> calls[c].optSave
                 /\ (calls[c].pc = "done" /\ calls[c].log \cap {"mruFail", "saveFail"} = {}) =>
                      ("savePassword" \in calls[c].log <=> calls[c].d.savePassword)

\* A call that saved the password and not the profile.
C24_Witness ==
    \E c \in Ops :
        /\ calls[c].pc = "done"
        /\ calls[c].raw = <<"ok">>
        /\ ~calls[c].optSave /\ calls[c].d.savePassword
        /\ "savePassword" \in calls[c].log
        /\ "saveProfile" \notin calls[c].log

\* C25: while the remediation dialog of a call is open the failed result is
\* already marked errorHandled; a call whose remediation was offered and
\* then declined or failed keeps the mark and showConnectionDialogOnError is
\* not called for it; and showConnectionDialogOnError is called by tryConnect
\* only with a result that is neither connected nor errorHandled.
C25_HandledSkipsDialog ==
    \A c \in Ops :
        calls[c].kind \in {"connect", "connectIfNotConnected"} =>
            /\ calls[c].pc = "showFirewallRuleDialog" =>
                 (calls[c].res.handled /\ "canHandle" \in calls[c].log)
            /\ "remFail" \in calls[c].log =>
                 /\ calls[c].res.handled
                 /\ calls[c].log \cap {"dialogOffered", "dialogShown"} = {}
            /\ "dialogOffered" \in calls[c].log =>
                 (~calls[c].dlg.connected /\ ~calls[c].dlg.handled)

\* A connect with the dialog option set whose remediation was declined: it
\* has settled with the handled failure and the dialog was not opened.
C25_Witness ==
    \E c \in Ops :
        /\ calls[c].kind = "connect"
        /\ calls[c].hasOpts /\ calls[c].optDialog
        /\ calls[c].raw = <<"code">>
        /\ {"canHandle", "remFail"} \subseteq calls[c].log
        /\ calls[c].pc = "done"
        /\ calls[c].res.handled /\ ~calls[c].res.connected
        /\ "dialogShown" \notin calls[c].log

\* C26: when showConnectionDialogOnError has been called, the connection
\* dialog was opened exactly if the options object exists and has
\* showConnectionDialogOnError set; while the dialog is open the call waits,
\* and once the call has settled (the dialog not failing) connect fulfils
\* with the result that was passed in, unchanged, and connectIfNotConnected
\* rejects with its error message.
C26_DialogOnError ==
    \A c \in Ops :
        "dialogOffered" \in calls[c].log =>
            /\ "dialogShown" \in calls[c].log <=> (calls[c].hasOpts /\ calls[c].optDialog)
            /\ "dialogShown" \notin calls[c].log => calls[c].pc = "done"
            /\ calls[c].res = calls[c].dlg
            /\ (calls[c].pc = "done" /\ "dialogFail" \notin calls[c].log) =>
                 /\ calls[c].kind = "connect" =>
                      calls[c].out = "fulfilled" /\ calls[c].val = "result"
                 /\ calls[c].kind = "connectIfNotConnected" =>
                      calls[c].out = "rejected" /\ calls[c].val = calls[c].dlg.err

\* A connect whose dialog was opened and closed: the failure came back.
C26_Witness ==
    \E c \in Ops :
        /\ calls[c].kind = "connect"
        /\ "dialogShown" \in calls[c].log
        /\ calls[c].pc = "done"
        /\ calls[c].out = "fulfilled"
        /\ calls[c].raw = <<"nocode">>
        /\ calls[c].res = calls[c].dlg
        /\ calls[c].res.err = "msg"

\* C31, as claimed: for one connect or connectAndSaveProfile call,
\* onConnectReject is invoked at most once, whatever the failure path.
C31_RejectAtMostOnce ==
    \A c \in Ops :
        calls[c].kind \in {"connect", "connectAndSaveProfile"} => calls[c].cbReject <= 1

\* C32, as claimed: once a call has fulfilled with connected = true (no
\* delete or disconnect being requested), the registry holds a connected
\* entry for its URI, also when the write to the recent-connections list
\* that follows the successful dispatch fails.
C32_ConnectedEntryKept ==
    \A c \in Ops :
        (/\ calls[c].kind \in Kinds
         /\ calls[c].pc = "done"
         /\ calls[c].out = "fulfilled"
         /\ calls[c].res.connected)
        => \E r \in conns : r.ownerUri = calls[c].curi /\ r.connected /\ ~r.deleted

\* C33, as claimed: a connect or connectAndSaveProfile call leaves the
\* options object of its caller as it was: showFirewallRuleOnError has, at
\* every moment of the call and after it, the value the caller gave.
C33_OptionsUnchanged ==
    \A c \in Ops : calls[c].callerOpts => calls[c].optFw = calls[c].fwInit

(***************************************************************************)
(* Properties of changeDatabase, deleteConnectionGroup and of connects     *)
(* that follow one another (SpecAdmin)                                     *)
(***************************************************************************)

\* C14, as claimed: when the disconnect of a connection of the group has
\* failed (it rejected or it reported false), the deleteConnectionGroup call
\* returns false, deleteGroupFromConfiguration is not called and the
\* connection-deleted notification is not fired.
C14_GroupDisconnectFailure ==
    \A c \in Ops :
        (/\ calls[c].kind = "deleteConnectionGroup"
         /\ calls[c].pc = "done"
         /\ "disconnectFailed" \in calls[c].log)
        => (/\ calls[c].val = "false"
            /\ calls[c].log \cap {"groupConfigDeleted", "notified"} = {})

\* C15: a changeDatabase call on a URI that is not connected, or that has no
\* provider, returns false in the step that starts it, without calling the
\* provider and leaving every record as it was; on a connected URI it calls
\* the provider and changes nothing yet.  When the provider answers, no
\* record but the URI's is touched; the cached descriptor's database name is
\* the requested one and the call returns true when the provider returned
\* true (the URI still being connected), and every record is as it was and
\* the call returns false when the provider returned false.
C15_ChangeDatabase ==
    [][\A c \in Ops :
        /\ (calls[c].pc = "idle" /\ calls'[c].kind = "changeDatabase") =>
            /\ conns' = conns
            /\ IF csmIsConnected(conns, calls'[c].uri) /\ "noProvider" \notin calls'[c].log
               THEN calls'[c].pc = "changeDatabase" /\ "providerCalled" \in calls'[c].log
               ELSE /\ calls'[c].pc = "done"
                    /\ calls'[c].out = "fulfilled" /\ calls'[c].val = "false"
                    /\ "providerCalled" \notin calls'[c].log
        /\ (calls[c].pc = "changeDatabase" /\ calls'[c].pc = "done") =>
            /\ {r \in conns' : r.key # calls[c].uri} = {r \in conns : r.key # calls[c].uri}
            /\ "providerFalse" \in calls'[c].log =>
                /\ conns' = conns
                /\ calls'[c].out = "fulfilled" /\ calls'[c].val = "false"
            /\ ("providerTrue" \in calls'[c].log /\ csmIsConnected(conns, calls[c].uri)) =>
                /\ csmFindConnection(conns', calls[c].uri).db = calls[c].db
                /\ conns' = {IF r.key = calls[c].uri THEN [r EXCEPT !.db = calls[c].db]
                             ELSE r : r \in conns}
                /\ calls'[c].out = "fulfilled" /\ calls'[c].val = "true"]_vars

\* A changeDatabase that the provider accepted: the record carries the new
\* database name.
C15_Witness ==
    \E c \in Ops :
        /\ calls[c].kind = "changeDatabase"
        /\ calls[c].pc = "done"
        /\ calls[c].val = "true"
        /\ csmFindConnection(conns, calls[c].uri).key # NoUri
        /\ csmFindConnection(conns, calls[c].uri).db = calls[c].db

\* C16, as claimed: when a connect finds the password required and still
\* missing after the stored-secret lookup and the backfill from an existing
\* connection (also when that connection holds no password), or finds that
\* token resolution failed, it dispatches nothing and creates no attempt
\* record, and (the dialog not failing) it fulfils with connected = false.
C16_ShortCircuit ==
    \A c \in Ops :
        (/\ calls[c].kind = "connect"
         /\ calls[c].log \cap {"noPassword", "tokenFail"} # {})
        => (/\ calls[c].ndisp = 0
            /\ \A r \in conns : r.call # c
            /\ (calls[c].pc = "done" /\ "dialogFail" \notin calls[c].log) =>
                /\ calls[c].out = "fulfilled"
                /\ calls[c].val = "result"
                /\ ~calls[c].res.connected)

\* C28, as claimed: when a deleteConnectionGroup call returns true, no
\* connection of the group is connected or connecting in the registry.
C28_GroupFullyDisconnected ==
    [][\A c \in Ops :
        (/\ calls[c].pc # "done"
         /\ calls'[c].pc = "done"
         /\ calls'[c].kind = "deleteConnectionGroup"
         /\ calls'[c].val = "true")
        => \A u \in calls'[c].group :
              ~csmIsConnected(conns', u) /\ ~csmIsConnecting(conns', u)]_vars

\* C34, as claimed: a changeDatabase call never rejects: once the provider
\* has answered, the call fulfils with the provider's boolean, also when the
\* URI was disconnected while the provider's call was in flight.
C34_ChangeDatabaseFulfils ==
    \A c \in Ops :
        (calls[c].kind = "changeDatabase" /\ calls[c].pc = "done") =>
            /\ calls[c].out = "fulfilled"
            /\ "providerTrue" \in calls[c].log => calls[c].val = "true"
            /\ "providerFalse" \in calls[c].log => calls[c].val = "false"

(***************************************************************************)
(* Properties of hasRegisteredServers (SpecGroups) and of                  *)
(* fillInOrClearAzureToken (SpecToken)                                     *)
(***************************************************************************)

\* C19: for every tree of groups, hasRegisteredServers returns true exactly
\* when some group, at any depth, has at least one connection.
C19_HasRegisteredServers ==
    hasServers # "" =>
        ((hasServers = "true") <=>
            \E i \in 1..Len(groups) :
                \/ groups[i].connections > 0
                \/ \E j \in 1..Len(groups[i].children) :
                        groups[i].children[j].connections > 0)

\* The answer true for a tree whose only connections are in a child of the
\* second group, after a first group that has a child but no connection.
C19_Witness ==
    /\ hasServers = "true"
    /\ Len(groups) = 2
    /\ groups[1].connections = 0 /\ groups[2].connections = 0
    /\ Len(groups[1].children) = 1 /\ groups[1].children[1].connections = 0
    /\ \E j \in 1..Len(groups[2].children) : groups[2].children[j].connections > 0

\* C36: doHasRegisteredServers terminates on every tree of groups, and it
\* never evaluates root[i] further than one position past the end of a list:
\* every call returns with its loop counter either at the first group of its
\* list that has connections, its own or in a child group, or at
\* root.length; the answer is the one of the recursive definition.
C36_SearchTerminates ==
    /\ [](walk.read.i <= walk.read.len)
    /\ [](LET r == walk.returned
              HasConnections(g) ==
                  \/ g.connections > 0
                  \/ \E j \in 1..Len(g.children) : g.children[j].connections > 0
          IN  r.v # "" =>
                 /\ r.i <= Len(r.root)
                 /\ r.v = "false" <=> r.i = Len(r.root)
                 /\ \A k \in 1..r.i : ~HasConnections(r.root[k])
                 /\ r.v = "true" => HasConnections(r.root[r.i + 1]))
    /\ [](walk.result # "" =>
            /\ walk.stack = << >>
            /\ hasServers = walk.result
            /\ (walk.result = "true") <=> doHasRegisteredServers(groups))
    /\ (walk.stack # << >>) ~> (walk.result # "")

\* A nested call on the children of a group has evaluated root[i] one
\* position past the end of its list and is about to return false.
C36_Witness ==
    /\ Len(walk.stack) = 2
    /\ walk.read.len > 0
    /\ walk.read.i = walk.read.len
    /\ walk.returning = "false"

\* C20: for a federated descriptor without a cached token, when an account
\* matches (refreshed if stale) and the token set is not empty,
\* fillInOrClearAzureToken returns true, stores the token of the configured
\* tenant if the set has it and the first tenant's token otherwise, and
\* blanks the password option, changing nothing else; when there is no
\* account, no matching account or no token it returns false and leaves the
\* descriptor as it was.
C20_TenantToken ==
    [][(/\ tokenFill = "" /\ tokenFill' # ""
        /\ profile.auth = azureMFA /\ profile.token = "")
       => /\ (/\ \/ accounts.accounts = "fresh"
                 \/ accounts.accounts = "stale" /\ accounts.refreshOk
              /\ accounts.tokens # "none")
             => /\ tokenFill' = "true"
                /\ profile' = [profile EXCEPT
                      !.token = IF profile.tenant /\ accounts.tokens = "both"
                                THEN "tenant" ELSE "first",
                      !.optPw = FALSE]
          /\ (accounts.accounts \in {"none", "other"} \/ accounts.tokens = "none")
             => /\ tokenFill' = "false"
                /\ profile' = profile]_vars

\* The configured tenant's token was chosen and the password option blanked.
C20_Witness ==
    /\ tokenFill = "true"
    /\ profile.auth = azureMFA
    /\ profile.tenant
    /\ accounts.tokens = "both"
    /\ profile.token = "tenant"
    /\ ~profile.optPw
    /\ profile.pw

(***************************************************************************)
(* Properties of a delete followed by a reconnect on one URI (SpecRace)    *)
(***************************************************************************)

\* C27, as claimed: connect a is awaiting the provider, a deleteConnection is
\* requested on its URI, and connect b registers its attempt on the same URI
\* before a's dispatch is completed.  When the completion of a's dispatch
\* then arrives, b's attempt is not treated as a stale one: b's result does
\* not come back with errorHandled = true, and b's record stays in the
\* registry unless the provider reported an error.
C27_ReconnectNotStale ==
    [][\A a, del, b \in Ops :
        (/\ a < del /\ del < b
         /\ calls[a].kind = "connect" /\ calls[b].kind = "connect"
         /\ calls[del].kind = "deleteConnection"
         /\ "wasActive" \in calls[del].log
         /\ calls[a].curi = calls[del].uri /\ calls[b].curi = calls[del].uri
         /\ \E m \in inflight \ inflight' : m.call = a
         /\ calls[b].pc = "createNewConnection"
         /\ csmFindConnection(conns, calls[b].curi).key # NoUri
         /\ csmFindConnection(conns, calls[b].curi).call = b)
        => (/\ "stale" \notin calls'[b].log
            /\ ~calls'[b].res.handled
            /\ calls'[b].raw[Len(calls'[b].raw)] \in {"ok", "silent"} =>
                 \E r \in conns' : r.key = calls[b].curi /\ r.call = b)]_vars

(***************************************************************************)
(* Properties of the server-group dialog (SpecGroupDialog) and of the      *)
(* language flavor calls (SpecFlavor)                                      *)
(***************************************************************************)

\* C29, as claimed: when editGroup has failed, the group passed to
\* showEditGroupDialog has the name, color and description it had before the
\* handler ran, the dialog is still open and the error was shown; when
\* editGroup has succeeded, that group carries the view model's values and
\* the dialog is closed.
C29_EditRolledBack ==
    sgc.cur # "null" =>
        /\ sgc.last = "fail" =>
            /\ sgc.group = sgc.before
            /\ sgc.dialog = "open"
            /\ sgc.errors > 0
        /\ sgc.last = "ok" =>
            /\ sgc.group = sgc.vm
            /\ sgc.dialog = "closed"

\* C35, as claimed: once the dialog has been closed, after a successful add
\* or edit or by a close event, the promise returned by
\* showCreateGroupDialog or showEditGroupDialog eventually settles.
C35_PromiseSettles ==
    (sgc.dialog = "closed") ~> (sgc.promise \in {"fulfilled", "rejected"})

\* C30: doChangeLanguageFlavor fires the notification, with the provider as
\* flavor, exactly when the provider is registered, and otherwise throws and
\* fires nothing; ensureDefaultLanguageFlavor never throws and fires, with
\* the default provider as flavor, exactly when the URI has no provider and
\* the configured default provider is registered.
C30_LanguageFlavor ==
    /\ lang.op = "doChangeLanguageFlavor" =>
        /\ lang.fired = (IF lang.arg \in lang.registered THEN 1 ELSE 0)
        /\ lang.threw <=> lang.arg \notin lang.registered
        /\ lang.fired = 1 => lang.flavor = lang.arg
    /\ lang.op = "ensureDefaultLanguageFlavor" =>
        /\ ~lang.threw
        /\ lang.fired =
             (IF lang.uriProvider = "" /\ lang.default # "" /\ lang.default \in lang.registered
              THEN 1 ELSE 0)
        /\ lang.fired = 1 => lang.flavor = lang.default

\* ensureDefaultLanguageFlavor on a URI without provider, with a default that
\* is configured and not registered: nothing fired, nothing thrown.
C30_Witness ==
    /\ lang.op = "ensureDefaultLanguageFlavor"
    /\ lang.uriProvider = ""
    /\ lang.default # "" /\ lang.default \notin lang.registered
    /\ lang.fired = 0
    /\ ~lang.threw

=============================================================================
